---- MODULE Spec2Model ----
(***************************************************************************)
(* AgileTrack: the result cache (src/integrations/cache.py), the three     *)
(* integration adapters, the integration factory and the Celery sync       *)
(* tasks (src/backend/tasks.py), as a state machine.                       *)
(*                                                                         *)
(* SpecCache : callers invoking calculate_metrics of the three adapters,   *)
(*             step by step through the redis_cache wrapper where the      *)
(*             method is decorated.                                        *)
(* SpecSync  : the initial sync job and the periodic batch sync over the   *)
(*             integrations table.                                         *)
(***************************************************************************)
EXTENDS Integers, Sequences, FiniteSets, TLC

(***************************************************************************)
(* Bounds of the model                                                     *)
(***************************************************************************)
MaxCalls == 2
MaxTicks == 1
MaxVersion == 1
NumIntegrations == 2
MaxRuns == 2
MaxRequests == 3
MaxItems == 2

(***************************************************************************)
(* Program constants                                                       *)
(***************************************************************************)
DefaultTTL == 1800
TrelloTTL == 1800
DefaultDays == 30
InitialMaxRetries == 3
PeriodicMaxRetries == 2

\* Two concurrent callers (request handlers or workers).
Callers == {"a", "b"}
Kinds == {"github", "jira", "trello"}
Locators == {"B1"}
DaysValues == {7, DefaultDays}
None == "None"
\* The absent value where a metric result (a dict) or its JSON text is expected.
Nil == [nil |-> TRUE]

\* The ways a caller can pass the arguments of calculate_metrics:
\* locator and days by keyword, both positionally, the locator positionally
\* and days by keyword, or days left to its default.
Styles == {"kw", "pos", "mixed", "default"}
Calls ==
  {c \in [kind : Kinds, locator : Locators, days : DaysValues, style : Styles] :
     c.style = "default" => c.days = DefaultDays}

\* What config.get("project_key") / config.get("board_id") can give the
\* factory: nothing, an empty string, or a locator.
ConfigLocators == Locators \cup {None, ""}

\* The upstream accounts an adapter instance can be constructed for (its
\* credentials: api_key and token, or server, username and api_token).
Accounts == {"acct1", "acct2"}

NoCall ==
  [kind |-> None, locator |-> None, days |-> 0, style |-> None,
   account |-> None]

\* The call f() of a decorated function that takes no arguments.
PlainCall ==
  [kind |-> "function", locator |-> None, days |-> 0, style |-> None,
   account |-> None]

VARIABLES
  redis_client,     \* cache.py module global: TRUE = a client object, FALSE = None
  redis_up,         \* whether the external store answers at this moment
  store,            \* the external key-value store: key -> entry
  now,              \* wall clock, seconds
  upstream,         \* version of the data held by the external services
  pc,               \* per caller: position in the call
  args,             \* per caller: the call being made
  via,              \* per caller: "wrapper", "bypass" (client is None) or "direct" (undecorated)
  final_cache_key,  \* per caller: key derived by the wrapper
  result,           \* per caller: value returned by the wrapped function
  ret,              \* per caller: value returned to the caller
  raised,           \* per caller: exception that reached the caller
  stats,            \* per caller: what the current call did to cache and function
  prev,             \* the last completed call of any caller
  ncalls,           \* number of calls started
  integrations,     \* the integrations table: id -> row
  ijob,             \* the initial sync job of one integration
  pjob,             \* the periodic batch sync task
  itrace,           \* what the last execution of the initial sync did
  ptrace,           \* per integration: what the current periodic run did with it
  created,          \* rows the create route has committed, by id
  outbox,           \* integration ids handed to initial_sync_metrics_task.delay
  request,          \* the create request being handled
  nrequests,        \* number of create requests received
  dash,             \* the dashboard request being handled
  gh,               \* one call of GitHubIntegration.calculate_metrics
  jr,               \* one call of JiraIntegration.calculate_metrics
  mreq              \* the metrics request (POST /integrations/{id}/metrics)

cacheVars ==
  <<redis_client, redis_up, store, now, upstream, pc, args, via,
    final_cache_key, result, ret, raised, stats, prev, ncalls>>

syncVars == <<integrations, ijob, pjob, itrace, ptrace>>

routeVars == <<created, outbox, request, nrequests>>

dashVars == <<dash>>

adapterVars == <<gh, jr>>

metricsVars == <<mreq>>

vars == <<cacheVars, syncVars, routeVars, dashVars, adapterVars, metricsVars>>

(***************************************************************************)
(* Adapter classes                                                         *)
(***************************************************************************)
\* "other" stands for any further class with a method under @redis_cache
\* (the decorator takes any function): one whose signature also has a
\* parameter outside the allow-list.
KeyKinds == Kinds \cup {"other"}

ClassName(kind) ==
  CASE kind = "github" -> "GitHubIntegration"
    [] kind = "jira" -> "JiraIntegration"
    [] kind = "trello" -> "TrelloIntegration"
    [] kind = "other" -> "OtherIntegration"

\* Only TrelloIntegration.calculate_metrics carries @redis_cache, and the
\* plain function stands for one defined under the decorator.
Decorated(kind) == kind \in {"trello", "function"}

\* Parameter names of calculate_metrics after self, in signature order.
Signature(kind) ==
  CASE kind = "github" -> <<"days">>
    [] kind = "jira" -> <<"project_key", "days">>
    [] kind = "trello" -> <<"board_id", "days">>
    [] kind = "other" -> <<"board_id", "days", "limit">>

\* The parameter that carries the locator, if any.
LocatorParam(kind) ==
  CASE kind = "jira" -> "project_key"
    [] kind = "github" -> None
    [] OTHER -> "board_id"

(***************************************************************************)
(* Python values and calls                                                 *)
(***************************************************************************)
IntV(i) == [t |-> "int", i |-> i, s |-> ""]
StrV(s) == [t |-> "str", i |-> 0, s |-> s]
NoneV == [t |-> "NoneType", i |-> 0, s |-> ""]

\* str(value)
Str(v) ==
  CASE v.t = "int" -> ToString(v.i)
    [] v.t = "str" -> v.s
    [] OTHER -> "None"

\* Parameter defaults of the signature: days=30 (and limit=None).
Defaults(kind) ==
  IF kind = "other"
    THEN [n \in {"days", "limit"} |-> IF n = "days" THEN IntV(DefaultDays) ELSE NoneV]
    ELSE [n \in {"days"} |-> IntV(DefaultDays)]

NoKwargs == [n \in {} |-> NoneV]

\* The instance attribute repository_name (GitHubIntegration only).
RepositoryName(c) == IF c.kind = "github" THEN c.locator ELSE None

\* The positional arguments after self of a call made in the given style.
PosArgs(c) ==
  LET loc == IF LocatorParam(c.kind) = None THEN <<>> ELSE <<StrV(c.locator)>>
  IN CASE c.style = "pos" -> loc \o <<IntV(c.days)>>
       [] c.style \in {"default", "mixed"} -> loc
       [] OTHER -> <<>>

\* Its keyword arguments.
KwArgs(c) ==
  IF c.style \in {"pos", "default"} THEN NoKwargs
  ELSE IF c.style = "mixed" THEN [n \in {"days"} |-> IntV(c.days)]
  ELSE [n \in {"days"} \cup ({LocatorParam(c.kind)} \ {None}) |->
          IF n = "days" THEN IntV(c.days) ELSE StrV(c.locator)]

\* The call as Python sees it: the instance, *args and **kwargs.
PyCall(c) ==
  [kind |-> c.kind, method |-> "calculate_metrics", repo |-> RepositoryName(c),
   pos |-> PosArgs(c), kw |-> KwArgs(c)]

(***************************************************************************)
(* inspect.signature(func).bind                                           *)
(***************************************************************************)
Names(sig) == {sig[k] : k \in 1..Len(sig)}

Index(sig, n) == CHOOSE k \in 1..Len(sig) : sig[k] = n

\* bind raises TypeError: too many positional arguments, an unexpected
\* keyword, multiple values for one parameter, or a required one missing.
BindFails(sig, dflt, pos, kw) ==
  \/ Len(pos) > Len(sig)
  \/ \E n \in DOMAIN kw : n \notin Names(sig)
  \/ \E n \in DOMAIN kw : n \in Names(sig) /\ Index(sig, n) <= Len(pos)
  \/ \E k \in 1..Len(sig) :
       k > Len(pos) /\ sig[k] \notin DOMAIN kw /\ sig[k] \notin DOMAIN dflt

\* Variant: the defaults are not applied, an omitted parameter stays None.
BoundArgumentsNoDefaults(sig, dflt, pos, kw) ==
  [n \in Names(sig) |->
     IF Index(sig, n) <= Len(pos) THEN pos[Index(sig, n)]
     ELSE IF n \in DOMAIN kw THEN kw[n]
     ELSE NoneV]
\* bound_args.arguments after apply_defaults(): every parameter with its
\* value, whichever way it was passed.
BoundArguments(sig, dflt, pos, kw) ==
  [n \in Names(sig) |->
     IF Index(sig, n) <= Len(pos) THEN pos[Index(sig, n)]
     ELSE IF n \in DOMAIN kw THEN kw[n]
     ELSE dflt[n]]

\* The arguments of a call that binds.
Bound(call) == BoundArguments(Signature(call.kind), Defaults(call.kind), call.pos, call.kw)

Binds(call) == ~BindFails(Signature(call.kind), Defaults(call.kind), call.pos, call.kw)

\* days as the method body receives it.
BoundDays(c) == Bound(PyCall(c))["days"].i

(***************************************************************************)
(* Cache key (redis_cache.wrapper, signature scheme)                       *)
(***************************************************************************)
AllowList == {"project_key", "board_id", "days"}

\* Variant: every named parameter goes into the key.
InKeyAny(name, value) == value # NoneV
\* name in ['project_key', 'board_id', 'days'] and value is not None
InKey(name, value) == name \in AllowList /\ value # NoneV

RECURSIVE JoinParts(_)
\* ":".join(filter(None, key_parts))
JoinParts(parts) ==
  IF parts = <<>> THEN ""
  ELSE LET rest == JoinParts(Tail(parts))
       IN IF Head(parts) = "" THEN rest
          ELSE IF rest = "" THEN Head(parts)
          ELSE Head(parts) \o ":" \o rest

\* Variant: the legacy rendering name=value of generate_cache_key.
SegmentLegacy(name, value) == name \o "=" \o Str(value)
\* f"{name}:{str(value)}"
Segment(name, value) == name \o ":" \o Str(value)

RECURSIVE ArgParts(_, _)
\* The loop over bound_args.arguments, in signature order.
ArgParts(arguments, names) ==
  IF names = <<>> THEN <<>>
  ELSE LET name == Head(names)
       IN (IF InKey(name, arguments[name])
             THEN <<Segment(name, arguments[name])>>
             ELSE <<>>) \o ArgParts(arguments, Tail(names))

\* All keyword names a caller may use, sorted as sorted(kwargs.items()) does.
SortedNames == <<"board_id", "days", "limit", "project_key">>

RECURSIVE PosParts(_)
\* [str(arg) for arg in args[1:]]
PosParts(pos) ==
  IF pos = <<>> THEN <<>> ELSE <<Str(Head(pos))>> \o PosParts(Tail(pos))

RECURSIVE KwParts(_, _)
\* [f"{k}:{v}" for k, v in sorted(kwargs.items())]
KwParts(kw, names) ==
  IF names = <<>> THEN <<>>
  ELSE (IF Head(names) \in DOMAIN kw
          THEN <<Head(names) \o ":" \o Str(kw[Head(names)])>>
          ELSE <<>>) \o KwParts(kw, Tail(names))

\* key_parts: class and function name, the instance's repository_name when
\* it has a truthy one, then the bound arguments on the allow-list; when
\* bind raised TypeError, every argument as it was passed.
KeyParts(call) ==
  LET head == <<ClassName(call.kind), call.method>>
      repo == IF call.repo # None /\ call.repo # ""
                THEN <<"repository_name:" \o call.repo>>
                ELSE <<>>
  IN IF Binds(call)
       THEN head \o repo \o ArgParts(Bound(call), Signature(call.kind))
       ELSE head \o repo \o PosParts(call.pos) \o KwParts(call.kw, SortedNames)

\* final_cache_key
WrapperKey(call) == JoinParts(KeyParts(call))

CacheKey(c) == WrapperKey(PyCall(c))

\* The calls a decorated method can receive, as Python sees them: values a
\* caller may pass for the locator, for days and for limit, positionally (a
\* prefix of the signature) or by keyword, no parameter given twice.
\* The locators a key can be derived for: project_key and board_id come
\* out of the request body as any string (MetricsRequest), so also one that
\* holds the delimiter of the key.
KeyLocators == Locators \cup {"B1:days:7"}
LocatorValues == {StrV(l) : l \in KeyLocators} \cup {NoneV}

\* func.__name__: the decorator can sit on any method; "get_cards" stands
\* for a second decorated method with the signature of calculate_metrics
\* (TrelloIntegration.get_cards(self, board_id, days=30) has it).
Methods == {"calculate_metrics", "get_cards"}
DaysArgs == {IntV(d) : d \in DaysValues} \cup {NoneV}
LimitArgs == {IntV(5), IntV(9)}

ValuesOf(name) ==
  CASE name = "days" -> DaysArgs
    [] name = "limit" -> LimitArgs
    [] OTHER -> LocatorValues

PosChoices(kind) ==
  LET sig == Signature(kind)
  IN {<<>>} \cup {<<v>> : v \in ValuesOf(sig[1])}
       \cup (IF Len(sig) < 2 THEN {}
               ELSE {<<v, w>> : v \in ValuesOf(sig[1]), w \in ValuesOf(sig[2])})

KwNames(kind) == Names(Signature(kind)) \cup {"limit"}

KwChoices(kind, pos) ==
  LET free == {n \in KwNames(kind) :
                 n \in Names(Signature(kind)) => Index(Signature(kind), n) > Len(pos)}
  IN UNION {{kw \in [D -> LocatorValues \cup DaysArgs \cup LimitArgs] :
               \A n \in D : kw[n] \in ValuesOf(n)} : D \in SUBSET free}

KeyCallsOf(kind) ==
  UNION {{[kind |-> kind, method |-> m, repo |-> r, pos |-> pos, kw |-> kw] :
            kw \in KwChoices(kind, pos),
            r \in IF kind = "github" THEN KeyLocators \cup {""} ELSE {None},
            m \in Methods} :
         pos \in PosChoices(kind)}

KeyCalls == UNION {KeyCallsOf(kind) : kind \in KeyKinds}

\* Variant: the entry is written with another lifetime than the decorator's.
TTLSecondsHour(kind) == 2 * DefaultTTL
\* ttl_seconds of the decorator on the method.
TTLSeconds(kind) == IF kind = "trello" THEN TrelloTTL ELSE DefaultTTL

KeySpace ==
  {CacheKey(c) : c \in [kind : Kinds, locator : ConfigLocators \ {None},
                        days : DaysValues, style : Styles]}

(***************************************************************************)
(* The store (redis get / setex) and the JSON conversion                   *)
(***************************************************************************)
NoEntry == [val |-> Nil, exp |-> 0]

\* json.dumps / json.loads of a metric result: a text that is not the dict.
Dumps(r) == [json |-> r]
\* json.dumps raises TypeError for a value of a type it cannot encode.
CanDump(r) == r.native
\* Variant: the cached text is handed back without json.loads.
LoadsRaw(text) == text
Loads(text) == text.json

\* redis get: the value while the entry has not expired, else None.
RedisGet(s, k, t) ==
  IF s[k] # NoEntry /\ s[k].exp > t THEN s[k].val ELSE Nil

\* Variant: the store keeps what it had and the new entry is lost.
RedisSetexLost(s, k, ttl, text, t) == s
\* redis setex: the entry replaces whatever was stored and lives ttl seconds.
RedisSetex(s, k, ttl, text, t) ==
  [s EXCEPT ![k] = [val |-> text, exp |-> t + ttl]]

(***************************************************************************)
(* The adapters' calculate_metrics body                                    *)
(***************************************************************************)
UpstreamOutcomes == {"ok", "http_error", "other_error"}

\* The aggregate the adapter returns: computed from what the upstream
\* service shows to the account whose credentials the instance holds.
\* native: every value in it is of a built-in Python type (dict, list, str,
\* int, float, bool, None).
Metrics(c, ver) ==
  [kind |-> c.kind, locator |-> c.locator, account |-> c.account,
   days |-> BoundDays(c), data |-> ver, native |-> TRUE]

ErrorResult == [error |-> TRUE, native |-> TRUE]

\* What the function without parameters returns: a constant dict.
PlainResult ==
  [kind |-> "function", locator |-> None, account |-> None, days |-> 0,
   data |-> 0, native |-> TRUE]

\* The types of the values in a computed aggregate: built-in ones only, or
\* some value of another type (a numpy scalar out of a pandas aggregation, a
\* datetime), which the function returns all the same.  The shape only
\* matters where the result is serialized, that is inside the wrapper.
ResultShapes == {"native", "foreign"}

Shaped(value, shape) == [value EXCEPT !.native = (shape = "native")]

\* What calculate_metrics does with the upstream answer:
\*   GitHubIntegration catches every exception and returns an error result;
\*   JiraIntegration lets the exception of get_issues propagate;
\*   TrelloIntegration's get_lists/get_cards turn a RequestException into a
\*   ValueError, anything else propagates.
CalculateMetrics(c, ver, up) ==
  IF c = PlainCall THEN [exc |-> None, value |-> PlainResult]
  ELSE IF up = "ok" THEN [exc |-> None, value |-> Metrics(c, ver)]
  ELSE CASE c.kind = "github" -> [exc |-> None, value |-> ErrorResult]
         [] c.kind = "jira" -> [exc |-> "Exception", value |-> Nil]
         [] c.kind = "trello" ->
              [exc |-> IF up = "http_error" THEN "ValueError" ELSE "Exception",
               value |-> Nil]

(***************************************************************************)
(* Callers of calculate_metrics                                            *)
(***************************************************************************)
NoStats ==
  [reads |-> 0, rkey |-> None, got |-> Nil, calls |-> 0, writes |-> 0,
   wkey |-> None, wttl |-> 0, hit |-> FALSE, geterr |-> FALSE, seterr |-> FALSE,
   follows |-> FALSE]

NoPrev == [call |-> NoCall, ret |-> Nil, at |-> 0, clean |-> FALSE]

InitCache ==
  /\ redis_client \in BOOLEAN
  /\ redis_up = redis_client
  /\ store = [k \in KeySpace |-> NoEntry]
  /\ now = 0
  /\ upstream = 0
  /\ pc = [p \in Callers |-> "idle"]
  /\ args = [p \in Callers |-> NoCall]
  /\ via = [p \in Callers |-> None]
  /\ final_cache_key = [p \in Callers |-> None]
  /\ result = [p \in Callers |-> Nil]
  /\ ret = [p \in Callers |-> Nil]
  /\ raised = [p \in Callers |-> None]
  /\ stats = [p \in Callers |-> NoStats]
  /\ prev = NoPrev
  /\ ncalls = 0

\* Variant: the wrapper goes to the store even without a client.
BypassNever(client) == FALSE
\* `if not redis_client`: the module holds no client (the ping at import
\* failed), the wrapper calls the function and returns what it returns.
Bypass(client) == ~client

\* `instance = args[0]`: an IndexError when the call has no positional
\* argument at all, as the call of a function without parameters.
HasInstance(c) == c # PlainCall

\* A caller invokes calculate_metrics: an undecorated method runs its body;
\* the wrapper runs the body directly when there is no client, and
\* otherwise derives the key and goes on to read the store.
Invoke(p, c) ==
  /\ pc[p] = "idle"
  /\ ncalls < MaxCalls
  /\ ncalls' = ncalls + 1
  /\ args' = [args EXCEPT ![p] = c]
  /\ stats' = [stats EXCEPT ![p] =
                 [NoStats EXCEPT !.follows = prev.call # NoCall]]
  /\ result' = [result EXCEPT ![p] = Nil]
  /\ ret' = [ret EXCEPT ![p] = Nil]
  /\ IF ~Decorated(c.kind)
       THEN /\ via' = [via EXCEPT ![p] = "direct"]
            /\ final_cache_key' = [final_cache_key EXCEPT ![p] = None]
            /\ pc' = [pc EXCEPT ![p] = "compute"]
            /\ raised' = [raised EXCEPT ![p] = None]
       ELSE IF Bypass(redis_client)
         THEN /\ via' = [via EXCEPT ![p] = "bypass"]
              /\ final_cache_key' = [final_cache_key EXCEPT ![p] = None]
              /\ pc' = [pc EXCEPT ![p] = "compute"]
              /\ raised' = [raised EXCEPT ![p] = None]
         ELSE IF ~HasInstance(c)
           THEN /\ via' = [via EXCEPT ![p] = "wrapper"]
                /\ final_cache_key' = [final_cache_key EXCEPT ![p] = None]
                /\ pc' = [pc EXCEPT ![p] = "done"]
                /\ raised' = [raised EXCEPT ![p] = "IndexError"]
           ELSE /\ via' = [via EXCEPT ![p] = "wrapper"]
                /\ final_cache_key' = [final_cache_key EXCEPT ![p] = CacheKey(c)]
                /\ pc' = [pc EXCEPT ![p] = "read"]
                /\ raised' = [raised EXCEPT ![p] = None]
  /\ UNCHANGED <<redis_client, redis_up, store, now, upstream, prev>>

\* Variant: only a missing locator is refused, an empty one is passed on.
FalsyNoneOnly(v) == v = None
\* `not project_key` / `not board_id`
Falsy(v) == v \in {None, ""}

\* IntegrationFactory.get_metrics(instance, config) called by p, the
\* instance constructed with the credentials of one account: a Jira or
\* Trello adapter without a locator in config gets a ValueError before
\* anything else happens; otherwise calculate_metrics is called with the
\* locator and days by keyword.
FactoryGetMetrics(p, kind, locator, days, account) ==
  LET c == [kind |-> kind, locator |-> locator, days |-> days, style |-> "kw",
            account |-> account]
  IN IF kind \in {"jira", "trello"} /\ Falsy(locator)
       THEN /\ pc[p] = "idle"
            /\ ncalls < MaxCalls
            /\ ncalls' = ncalls + 1
            /\ args' = [args EXCEPT ![p] = c]
            /\ via' = [via EXCEPT ![p] = "factory"]
            /\ raised' = [raised EXCEPT ![p] = "ValueError"]
            /\ pc' = [pc EXCEPT ![p] = "done"]
            /\ UNCHANGED <<redis_client, redis_up, store, now, upstream,
                           final_cache_key, result, ret, stats, prev>>
       ELSE /\ locator # None
            /\ Invoke(p, c)

\* Variant: a RedisError of the read is not caught and reaches the caller.
CacheReadRaises(up, cached_result) ==
  IF ~up
    THEN [goto |-> "done", hit |-> FALSE, geterr |-> TRUE, exc |-> "RedisError"]
    ELSE IF cached_result # Nil
      THEN [goto |-> "done", hit |-> TRUE, geterr |-> FALSE, exc |-> None]
      ELSE [goto |-> "compute", hit |-> FALSE, geterr |-> FALSE, exc |-> None]

\* The try block around redis_client.get: a RedisError is logged and the
\* call goes on as a miss; a truthy value is a hit; None is a miss.
CacheRead(up, cached_result) ==
  IF ~up
    THEN [goto |-> "compute", hit |-> FALSE, geterr |-> TRUE, exc |-> None]
    ELSE IF cached_result # Nil
      THEN [goto |-> "done", hit |-> TRUE, geterr |-> FALSE, exc |-> None]
      ELSE [goto |-> "compute", hit |-> FALSE, geterr |-> FALSE, exc |-> None]

\* redis_client.get(final_cache_key), then return json.loads(cached_result)
\* on a hit.
CacheGet(p) ==
  /\ pc[p] = "read"
  /\ LET cached_result == RedisGet(store, final_cache_key[p], now)
         r == CacheRead(redis_up, cached_result)
     IN /\ stats' = [stats EXCEPT ![p].reads = @ + 1,
                                  ![p].rkey = final_cache_key[p],
                                  ![p].got = IF r.hit THEN cached_result ELSE Nil,
                                  ![p].hit = r.hit,
                                  ![p].geterr = r.geterr]
        /\ pc' = [pc EXCEPT ![p] = r.goto]
        /\ raised' = [raised EXCEPT ![p] = r.exc]
        /\ ret' = IF r.hit THEN [ret EXCEPT ![p] = Loads(cached_result)] ELSE ret
  /\ UNCHANGED <<redis_client, redis_up, store, now, upstream, args, via,
                 final_cache_key, result, prev, ncalls>>

\* Variant: the wrapper catches what the function raises and raises its own
\* exception instead.
PropagateWrapped(exc) == IF exc = None THEN None ELSE "RuntimeError"
\* `result = func(*args, **kwargs)` stands in no try block: what the
\* function raises is what the caller of the wrapper gets.
Propagate(exc) == exc

\* func(*args, **kwargs): the adapter fetches from the upstream service and
\* aggregates.  An exception leaves the wrapper at once.
Compute(p, up, shape) ==
  /\ pc[p] = "compute"
  /\ (up # "ok" \/ via[p] # "wrapper") => shape = "native"
  /\ LET body == CalculateMetrics(args[p], upstream, up)
         out == [exc |-> body.exc,
                 value |-> IF body.exc = None THEN Shaped(body.value, shape)
                           ELSE body.value]
     IN /\ stats' = [stats EXCEPT ![p].calls = @ + 1]
        /\ IF out.exc # None
             THEN /\ raised' = [raised EXCEPT ![p] =
                                  IF via[p] = "direct" THEN out.exc
                                  ELSE Propagate(out.exc)]
                  /\ pc' = [pc EXCEPT ![p] = "done"]
                  /\ UNCHANGED <<result, ret>>
             ELSE IF via[p] = "wrapper"
               THEN /\ result' = [result EXCEPT ![p] = out.value]
                    /\ pc' = [pc EXCEPT ![p] = "write"]
                    /\ UNCHANGED <<raised, ret>>
               ELSE /\ result' = [result EXCEPT ![p] = out.value]
                    /\ ret' = [ret EXCEPT ![p] = out.value]
                    /\ pc' = [pc EXCEPT ![p] = "done"]
                    /\ UNCHANGED raised
  /\ UNCHANGED <<redis_client, redis_up, store, now, upstream, args, via,
                 final_cache_key, prev, ncalls>>

\* redis_client.setex(final_cache_key, ttl_seconds, json.dumps(result)).
\* The argument json.dumps(result) is evaluated first: its TypeError is not
\* a RedisError, so it leaves the wrapper and setex is never called.  A
\* RedisError of setex is logged and the result is returned.
CacheSet(p) ==
  /\ pc[p] = "write"
  /\ IF ~CanDump(result[p])
       THEN /\ raised' = [raised EXCEPT ![p] = "TypeError"]
            /\ UNCHANGED <<stats, store, ret>>
       ELSE /\ stats' = [stats EXCEPT ![p].writes = @ + 1,
                                      ![p].wkey = final_cache_key[p],
                                      ![p].wttl = TTLSeconds(args[p].kind),
                                      ![p].seterr = ~redis_up]
            /\ store' = IF redis_up
                          THEN RedisSetex(store, final_cache_key[p],
                                          TTLSeconds(args[p].kind),
                                          Dumps(result[p]), now)
                          ELSE store
            /\ ret' = [ret EXCEPT ![p] = result[p]]
            /\ UNCHANGED raised
  /\ pc' = [pc EXCEPT ![p] = "done"]
  /\ UNCHANGED <<redis_client, redis_up, now, upstream, args, via,
                 final_cache_key, result, prev, ncalls>>

\* The call has returned (or raised): its frame is gone; what was called and
\* what came back is remembered as the last completed call, when it went
\* through without any error.  A call of another caller still in flight did
\* not start after this one completed.
Return(p) ==
  /\ pc[p] = "done"
  /\ prev' = IF raised[p] = None /\ ~stats[p].geterr /\ ~stats[p].seterr
                 /\ via[p] # "bypass"
                THEN [call |-> args[p], ret |-> ret[p], at |-> now,
                      clean |-> TRUE]
                ELSE NoPrev
  /\ pc' = [pc EXCEPT ![p] = "idle"]
  /\ args' = [args EXCEPT ![p] = NoCall]
  /\ via' = [via EXCEPT ![p] = None]
  /\ final_cache_key' = [final_cache_key EXCEPT ![p] = None]
  /\ result' = [result EXCEPT ![p] = Nil]
  /\ ret' = [ret EXCEPT ![p] = Nil]
  /\ raised' = [raised EXCEPT ![p] = None]
  /\ stats' = [q \in Callers |->
                IF q = p THEN NoStats ELSE [stats[q] EXCEPT !.follows = FALSE]]
  /\ UNCHANGED <<redis_client, redis_up, store, now, upstream, ncalls>>

\* The wrapper's key derivation on its own: the call a caller is about to
\* make and the key the wrapper derives for it.
DeriveKey(p, call) ==
  /\ pc[p] = "idle"
  /\ args' = [args EXCEPT ![p] = call]
  /\ via' = [via EXCEPT ![p] = "key"]
  /\ final_cache_key' = [final_cache_key EXCEPT ![p] = WrapperKey(call)]
  /\ UNCHANGED <<redis_client, redis_up, store, now, upstream, pc, result,
                 ret, raised, stats, prev, ncalls>>

\* Time passes, one TTL at a time; the store drops the entries whose
\* lifetime is over.
Tick ==
  /\ now < MaxTicks * DefaultTTL
  /\ now' = now + DefaultTTL
  /\ store' = [k \in KeySpace |->
                IF store[k].exp > now' THEN store[k] ELSE NoEntry]
  /\ UNCHANGED <<redis_client, redis_up, upstream, pc, args, via,
                 final_cache_key, result, ret, raised, stats, prev, ncalls>>

\* The external service's data changes.
UpstreamChange ==
  /\ upstream < MaxVersion
  /\ upstream' = upstream + 1
  /\ UNCHANGED <<redis_client, redis_up, store, now, pc, args, via,
                 final_cache_key, result, ret, raised, stats, prev, ncalls>>

\* The store becomes unreachable or reachable again, whether or not the
\* process found it at import: redis_client is assigned once, when the
\* module is loaded, and never again.
StoreFlip ==
  /\ redis_up' = ~redis_up
  /\ UNCHANGED <<redis_client, store, now, upstream, pc, args, via,
                 final_cache_key, result, ret, raised, stats, prev, ncalls>>

CallerStep ==
  \/ \E p \in Callers, kind \in Kinds, locator \in ConfigLocators,
          days \in DaysValues, account \in Accounts :
       /\ kind = "github" => locator \in Locators
       /\ ~Decorated(kind) => account = "acct1"
       /\ FactoryGetMetrics(p, kind, locator, days, account)
  \/ \E p \in Callers : Invoke(p, PlainCall)
  \/ \E p \in Callers : CacheGet(p)
  \/ \E p \in Callers, up \in UpstreamOutcomes, shape \in ResultShapes :
       Compute(p, up, shape)
  \/ \E p \in Callers : CacheSet(p)
  \/ \E p \in Callers : Return(p)

EnvStep ==
  \/ Tick
  \/ UpstreamChange
  \/ StoreFlip

NextCache ==
  (CallerStep \/ EnvStep) /\ UNCHANGED <<syncVars, routeVars, dashVars, adapterVars, metricsVars>>

(***************************************************************************)
(* The integrations table                                                  *)
(***************************************************************************)
Ids == 1..NumIntegrations

\* Type tags a stored integration can carry ("svn" stands for any tag that
\* is none of the three supported kinds).
Types == {"github", "jira", "trello", "svn"}

NullTime == [set |-> FALSE, at |-> 0]
TimeAt(t) == [set |-> TRUE, at |-> t]

\* A row: the type tag, whether config holds the locator of its type
\* (repository / project_key / board_id), the active flag and the two
\* timestamps the tasks write.
\* The locator only exists for the supported types.  The initial sync never
\* reads `active` and the periodic sync reads nothing else of an inactive
\* row, so one inactive row stands for all of them.
Rows ==
  {r \in [type : Types, has_locator : BOOLEAN, active : BOOLEAN,
          last_sync : {NullTime}, updated_at : {NullTime}] :
     /\ r.type \notin Kinds => ~r.has_locator
     /\ ~r.active => (r.type = "github" /\ r.has_locator)}

\* integration_type.lower() as the factory compares it.
Lower(type) ==
  CASE type = "GitHub" -> "github"
    [] type = "Jira" -> "jira"
    [] type = "TRELLO" -> "trello"
    [] OTHER -> type

Supported(type) == Lower(type) \in Kinds

\* The rows the sync tasks can meet: the type column holds the tag as the
\* client sent it, and the create route accepts every tag that
\* Supported accepts, so also a capitalised one ("Jira" stands for these),
\* with or without the locator in config.
SyncRows ==
  Rows \cup [type : {"Jira"}, has_locator : BOOLEAN, active : {TRUE},
             last_sync : {NullTime}, updated_at : {NullTime}]

(***************************************************************************)
(* IntegrationFactory                                                      *)
(***************************************************************************)
ConstructOutcomes == {"ok", "fail"}

\* create_integration and the adapter constructor it calls.  An unsupported
\* tag is a ValueError.  "fail" is a constructor that cannot complete:
\* GitHubIntegration.set_repository (only run when a repository is given)
\* wraps any failure in a ValueError, JIRA(...) raises its own exception,
\* TrelloIntegration raises ValueError when key or token is missing.
CreateIntegration(type, has_locator, c) ==
  IF ~Supported(type) THEN "ValueError"
  ELSE IF c = "ok" THEN "ok"
  ELSE CASE Lower(type) = "github" -> IF has_locator THEN "ValueError" ELSE "ok"
         [] Lower(type) = "jira" -> "Exception"
         [] Lower(type) = "trello" -> "ValueError"

\* The message of the ValueError create_integration raises for a tag it
\* does not know.
CreateDetail(type) ==
  IF Supported(type) THEN "" ELSE "Unsupported integration type: " \o type

\* get_supported_metrics(integration_type): the same dispatch on the
\* lower-cased tag, a table of metric names or the same ValueError.
GetSupportedMetrics(type) ==
  IF Supported(type) THEN [exc |-> None, detail |-> ""]
  ELSE [exc |-> "ValueError", detail |-> "Unsupported integration type: " \o type]

\* The cache as a decorated call finds it: "hit", or "miss" for every case
\* in which the body runs (no entry, read error, no client).
CacheStates == {"hit", "miss"}

\* The redis_cache wrapper around one call, in one piece: a hit returns the
\* cached value without running the body; otherwise the body runs once.
CachedCall(c, cache, ver, up) ==
  IF cache = "hit"
    THEN [exc |-> None, value |-> Metrics(c, ver), ran |-> FALSE]
    ELSE [exc |-> CalculateMetrics(c, ver, up).exc,
          value |-> CalculateMetrics(c, ver, up).value, ran |-> TRUE]

\* get_metrics(integration_instance, config): dispatch on the adapter class;
\* Jira and Trello need their locator in config, else ValueError before the
\* adapter is called.  has_key: config carries project_key / board_id.
\* A GitHub adapter without a repository fails inside calculate_metrics,
\* which returns the error result.
GetMetrics(kind, has_key, has_repo, cache, ver, up) ==
  LET c == [kind |-> kind, locator |-> "B1", days |-> DefaultDays, style |-> "kw",
            account |-> "acct1"]
  IN CASE kind = "github" ->
            IF has_repo
              THEN [exc |-> None, value |-> CalculateMetrics(c, ver, up).value,
                    ran |-> TRUE, upfail |-> up # "ok"]
              ELSE [exc |-> None, value |-> ErrorResult, ran |-> TRUE,
                    upfail |-> FALSE]
       [] kind = "jira" ->
            IF ~has_key
              THEN [exc |-> "ValueError", value |-> Nil, ran |-> FALSE,
                    upfail |-> FALSE]
              ELSE [exc |-> CalculateMetrics(c, ver, up).exc,
                    value |-> CalculateMetrics(c, ver, up).value,
                    ran |-> TRUE, upfail |-> up # "ok"]
       [] kind = "trello" ->
            IF ~has_key
              THEN [exc |-> "ValueError", value |-> Nil, ran |-> FALSE,
                    upfail |-> FALSE]
              ELSE LET w == CachedCall(c, cache, ver, up)
                   IN [exc |-> w.exc, value |-> w.value, ran |-> w.ran,
                       upfail |-> w.ran /\ up # "ok"]

\* metrics_params of both tasks: the stored locator is passed as project_key
\* when the tag is exactly "jira", as board_id when it is exactly "trello".
PassesKey(type, has_locator) == type \in {"jira", "trello"} /\ has_locator

\* The lookback window both tasks ask for.
SyncDays == 30

NoParams == [days |-> 0, key |-> None]

\* Variant: the tasks ask for one week.
MetricsParamsWeek(type, has_locator) ==
  [days |-> 7,
   key |-> IF ~PassesKey(type, has_locator) THEN None
           ELSE IF type = "jira" THEN "project_key" ELSE "board_id"]
\* metrics_params = {"days": 30}, plus project_key or board_id when stored.
MetricsParams(type, has_locator) ==
  [days |-> SyncDays,
   key |-> IF ~PassesKey(type, has_locator) THEN None
           ELSE IF type = "jira" THEN "project_key" ELSE "board_id"]

(***************************************************************************)
(* Celery retry                                                            *)
(***************************************************************************)
\* Variant: the retry count is compared with <=, one retry too many.
CanRetryOnceMore(retries, max_retries) == retries <= max_retries
\* self.retry(exc=e): re-queues the task while request.retries is below
\* max_retries, else raises e.
CanRetry(retries, max_retries) == retries < max_retries

(***************************************************************************)
(* What one task execution did with one integration                        *)
(***************************************************************************)
NoTrace ==
  [task |-> None, step |-> None, outcome |-> None, upfail |-> FALSE,
   get_metrics |-> 0, assigned |-> FALSE, commits |-> 0, committed |-> FALSE,
   retried |-> FALSE, before |-> NullTime, detail |-> "", params |-> NoParams]

\* What the environment does during one execution: the database query, the
\* adapter constructor, the cache, the upstream service, the commit.  The
\* upstream answer is only listed where the body runs.
Envs ==
  {e \in [query : {"ok", "fail"}, create : ConstructOutcomes, cache : CacheStates,
          up : UpstreamOutcomes, commit : {"ok", "fail"}] :
     e.cache = "hit" => e.up = "ok"}

LoopEnvs == {e \in Envs : e.query = "ok"}

\* The part both tasks share: build the adapter, call get_metrics, and
\* classify by the handler that ends up running.
\*   outcome "ok"          get_metrics returned
\*           "ValueError"  get_metrics raised ValueError
\*           "Exception"   get_metrics raised anything else
\*   step: "create" or "metrics", where processing stopped.
Attempt(row, e) ==
  LET made == CreateIntegration(row.type, row.has_locator, e.create)
      params == MetricsParams(row.type, row.has_locator)
      m == GetMetrics(Lower(row.type), params.key # None,
                      row.has_locator, e.cache, 0, e.up)
  IN IF made # "ok"
       THEN [step |-> "create", outcome |-> made, upfail |-> FALSE,
             get_metrics |-> 0, detail |-> CreateDetail(row.type),
             params |-> NoParams]
       ELSE [step |-> "metrics",
             outcome |-> IF m.exc = None THEN "ok" ELSE m.exc,
             upfail |-> m.upfail, get_metrics |-> 1, detail |-> "",
             params |-> params]

\* No attempt was made (the query raised first).
NoAttempt ==
  [step |-> "create", outcome |-> "Exception", upfail |-> FALSE,
   get_metrics |-> 0, detail |-> "", params |-> NoParams]

\* integration.last_sync = func.now(); integration.updated_at = func.now()
Touch(row, t) == [row EXCEPT !.last_sync = TimeAt(t), !.updated_at = TimeAt(t)]

(***************************************************************************)
(* initial_sync_metrics_task                                               *)
(***************************************************************************)
NoBatch ==
  [state |-> "idle", active_integrations |-> <<>>, idx |-> 0, retries |-> 0,
   successful_syncs |-> 0, failed_syncs |-> 0, runs |-> 0, closes |-> 0,
   scheduled |-> 0, aborted_at |-> 0]

NoJob == [id |-> 0, state |-> "none", retries |-> 0, runs |-> 0, closes |-> 0]

\* Variant: db.close() is the last statement of the try body.
CloseAtEnd(closes, path) == IF path = "return" THEN closes + 1 ELSE closes
\* finally: db.close(), on the way out of the task whether it returns
\* ("return") or an exception or a retry leaves it ("raise").
Finally(closes, path) == closes + 1

\* initial_sync_metrics_task.delay(id), called by the create route.  The
\* worker takes one task at a time; integrations are created before the
\* first beat of the periodic task.
EnqueueInitial(i) ==
  /\ ijob.state = "none"
  /\ pjob = NoBatch
  /\ ijob' = [NoJob EXCEPT !.id = i, !.state = "queued"]
  /\ itrace' = NoTrace
  /\ UNCHANGED <<integrations, pjob, ptrace>>
  /\ UNCHANGED cacheVars

\* Variant: no except ValueError clause, every exception is retried.
InitialExceptAll(outcome) == IF outcome = "ok" THEN "ok" ELSE "Exception"
\* The inner try of the task: which clause runs for what get_metrics did
\* (except ValueError comes before except Exception).
InitialExcept(outcome) ==
  IF outcome \in {"ok", "ValueError"} THEN outcome ELSE "Exception"

\* Variant: the outer handler calls self.retry.
OuterExceptRetries(retry) == IF retry THEN "queued" ELSE "abandoned"
\* The outer `except Exception: raise`: the exception is re-raised as it is
\* and the task ends in failure; nothing about the task asks Celery to
\* retry on an exception (no autoretry_for), so it is not run again.
OuterExcept(retry) == "failed"

\* The handlers of the task body, by what happened:
\*   the query raises                   -> outer handler re-raises: failed
\*   create_integration raises          -> outer handler re-raises: failed
\*   get_metrics returns                -> last_sync set, commit;
\*                                         a failing commit goes to self.retry
\*   get_metrics raises ValueError      -> last_sync set, commit;
\*                                         a failing commit is re-raised: failed
\*   get_metrics raises anything else   -> self.retry
\* retry: self.retry re-queues (else it raises the exception: abandoned).
InitialHandle(a, query, commit, retry, before) ==
  LET base == [NoTrace EXCEPT !.task = "initial", !.before = before]
      again == IF retry THEN "queued" ELSE "abandoned"
      outer == OuterExcept(retry)
  IN IF query = "fail"
       THEN [state |-> outer,
             t |-> [base EXCEPT !.step = "query", !.outcome = "Exception",
                                !.retried = (outer = "queued")]]
     ELSE IF a.step = "create"
       THEN [state |-> outer,
             t |-> [base EXCEPT !.step = "create", !.outcome = a.outcome,
                                !.detail = a.detail,
                                !.retried = (outer = "queued")]]
     ELSE IF InitialExcept(a.outcome) = "ok"
       THEN IF commit = "ok"
              THEN [state |-> "succeeded",
                    t |-> [base EXCEPT !.step = "metrics", !.outcome = "ok",
                                       !.upfail = a.upfail, !.get_metrics = 1,
                                       !.assigned = TRUE, !.commits = 1,
                                       !.committed = TRUE]]
              ELSE [state |-> again,
                    t |-> [base EXCEPT !.step = "commit", !.outcome = "Exception",
                                       !.upfail = a.upfail, !.get_metrics = 1,
                                       !.assigned = TRUE, !.commits = 1,
                                       !.retried = retry]]
     ELSE IF InitialExcept(a.outcome) = "ValueError"
       THEN [state |-> IF commit = "ok" THEN "skipped_config" ELSE outer,
             t |-> [base EXCEPT !.step = "metrics", !.outcome = "ValueError",
                                !.upfail = a.upfail, !.get_metrics = 1,
                                !.assigned = TRUE, !.commits = 1,
                                !.committed = (commit = "ok"),
                                !.retried = (commit = "fail" /\ outer = "queued")]]
     ELSE [state |-> again,
           t |-> [base EXCEPT !.step = "metrics", !.outcome = a.outcome,
                              !.upfail = a.upfail, !.get_metrics = 1,
                              !.retried = retry]]

\* The ids a job can carry: those of the rows, and 0 for the id of a row
\* that is gone when the job runs (deleted after the create route enqueued
\* the job).
JobIds == 0..NumIntegrations

\* Variant: the task does not look at what the query returned.
ReturnsNever(found) == FALSE
\* if not integration: return
ReturnsEarly(found) == ~found

\* The lookup found no row: the task returns; without that test the next
\* statement reads integration.name of None and its exception reaches the
\* outer handler.
InitialLookup(retry) ==
  LET base == [NoTrace EXCEPT !.task = "initial", !.step = "lookup"]
      outer == OuterExcept(retry)
  IN IF ReturnsEarly(FALSE)
       THEN [state |-> "not_found", t |-> [base EXCEPT !.outcome = "not_found"]]
       ELSE [state |-> outer,
             t |-> [base EXCEPT !.outcome = "Exception",
                                !.retried = (outer = "queued")]]

\* One execution of the task body, the session closed in the finally clause.
InitialRun(e) ==
  /\ ijob.state = "queued"
  /\ LET i == ijob.id
         found == i \in Ids
         row == integrations[i]
         retry == CanRetry(ijob.retries, InitialMaxRetries)
         h == IF found \/ e.query = "fail"
                THEN InitialHandle(IF found THEN Attempt(row, e) ELSE NoAttempt,
                                   e.query, e.commit, retry,
                                   IF found THEN row.last_sync ELSE NullTime)
                ELSE InitialLookup(retry)
     IN /\ ijob' = [ijob EXCEPT !.state = h.state,
                                !.retries = IF h.t.retried THEN @ + 1 ELSE @,
                                !.runs = @ + 1,
                                !.closes =
                                  Finally(@, IF h.state \in {"succeeded",
                                                             "skipped_config",
                                                             "not_found"}
                                               THEN "return" ELSE "raise")]
        /\ itrace' = [h.t EXCEPT !.params = IF h.t.get_metrics = 1
                                              THEN Attempt(row, e).params
                                              ELSE NoParams]
        /\ integrations' =
             IF found /\ h.t.committed
               THEN [integrations EXCEPT ![i] = Touch(row, now)]
               ELSE integrations
  /\ UNCHANGED <<pjob, ptrace>>
  /\ UNCHANGED cacheVars

InitialTerminal ==
  {"succeeded", "skipped_config", "failed", "abandoned", "not_found"}

\* The finished job's result is dropped from the result backend.
InitialForget ==
  /\ ijob.state \in InitialTerminal
  /\ ijob' = NoJob
  /\ itrace' = NoTrace
  /\ UNCHANGED <<integrations, pjob, ptrace>>
  /\ UNCHANGED cacheVars

(***************************************************************************)
(* periodic_sync_all_integrations_metrics_task                             *)
(***************************************************************************)
RECURSIVE ActiveFrom(_, _)
\* db.query(Integration).filter(Integration.active == True).all(), by id.
ActiveFrom(table, i) ==
  IF i > NumIntegrations THEN <<>>
  ELSE (IF table[i].active THEN <<i>> ELSE <<>>) \o ActiveFrom(table, i + 1)

\* Variant: the query has no filter on the active flag.
AllIntegrations(table) == [i \in Ids |-> i]
\* active_integrations of the periodic task.
ActiveIntegrations(table) == ActiveFrom(table, 1)

\* Celery beat starts the task (every 3600 s).
PeriodicSchedule ==
  /\ pjob.state \in {"idle", "done", "failed"}
  /\ ijob.state = "none"
  /\ pjob.scheduled < MaxRuns
  /\ pjob' = [NoBatch EXCEPT !.state = "queued", !.scheduled = pjob.scheduled + 1]
  /\ ptrace' = [i \in Ids |-> NoTrace]
  /\ UNCHANGED <<integrations, ijob, itrace>>
  /\ UNCHANGED cacheVars

\* The task starts: it reads the active integrations.  A query that raises
\* goes to the outer handler, which calls self.retry; an empty list returns.
PeriodicStart(query) ==
  /\ pjob.state = "queued"
  /\ LET list == ActiveIntegrations(integrations)
         retry == CanRetry(pjob.retries, PeriodicMaxRetries)
     IN pjob' =
          IF query = "fail"
            THEN [pjob EXCEPT !.state = IF retry THEN "queued" ELSE "failed",
                              !.retries = IF retry THEN @ + 1 ELSE @,
                              !.runs = @ + 1, !.closes = Finally(@, "raise")]
          ELSE IF list = <<>>
            THEN [pjob EXCEPT !.state = "done", !.runs = @ + 1,
                              !.closes = Finally(@, "return")]
          ELSE [pjob EXCEPT !.state = "running", !.active_integrations = list,
                            !.idx = 1, !.successful_syncs = 0, !.failed_syncs = 0,
                            !.aborted_at = 0, !.runs = @ + 1]
  /\ ptrace' = [i \in Ids |-> NoTrace]
  /\ UNCHANGED <<integrations, ijob, itrace>>
  /\ UNCHANGED cacheVars

\* Variant: the loop has no check of its own and leaves it to get_metrics.
NeverSkipped(row) == FALSE
\* The check the loop makes before get_metrics: a "jira" row without
\* project_key, or a "trello" row without board_id, is counted as failed and
\* skipped.
SkippedByPrecheck(row) == row.type \in {"jira", "trello"} /\ ~row.has_locator

\* Variant: the generic handler re-raises, so the exception leaves the loop.
PeriodicEscapesReraise(clause, commit) ==
  (clause = "ValueError" /\ commit = "fail") \/ clause = "Exception"
\* Whether an exception leaves the loop: the ValueError handler commits
\* outside any try; the generic handler only logs.
PeriodicEscapes(clause, commit) == clause = "ValueError" /\ commit = "fail"

\* The body of the loop for one integration, by what happened:
\*   create_integration or get_metrics raises ValueError
\*                                -> failed, last_sync set, commit (unguarded:
\*                                   a failing commit leaves the loop)
\*   missing locator (precheck)   -> failed, continue
\*   get_metrics returns          -> last_sync set, commit, successful; a
\*                                   failing commit is caught: failed
\*   anything else raises         -> failed
\* abort: the exception left the loop and reached the outer handler.
PeriodicHandle(row, a, commit) ==
  LET base == [NoTrace EXCEPT !.task = "periodic", !.before = row.last_sync]
  IN IF a.step = "create" /\ a.outcome = "Exception"
       THEN [ok |-> FALSE, abort |-> PeriodicEscapes("Exception", commit),
             t |-> [base EXCEPT !.step = "create", !.outcome = "Exception"]]
     ELSE IF a.step = "create" /\ a.outcome = "ValueError"
       THEN [ok |-> FALSE, abort |-> PeriodicEscapes("ValueError", commit),
             t |-> [base EXCEPT !.step = "create", !.outcome = "ValueError",
                                !.detail = a.detail,
                                !.assigned = TRUE, !.commits = 1,
                                !.committed = (commit = "ok")]]
     ELSE IF SkippedByPrecheck(row)
       THEN [ok |-> FALSE, abort |-> FALSE,
             t |-> [base EXCEPT !.step = "precheck", !.outcome = "skipped"]]
     ELSE IF a.outcome = "ok"
       THEN [ok |-> commit = "ok",
             abort |-> commit = "fail" /\ PeriodicEscapes("Exception", commit),
             t |-> [base EXCEPT !.step = IF commit = "ok" THEN "metrics" ELSE "commit",
                                !.outcome = IF commit = "ok" THEN "ok" ELSE "Exception",
                                !.upfail = a.upfail, !.get_metrics = 1,
                                !.assigned = TRUE, !.commits = 1,
                                !.committed = (commit = "ok")]]
     ELSE IF a.outcome = "ValueError"
       THEN [ok |-> FALSE, abort |-> PeriodicEscapes("ValueError", commit),
             t |-> [base EXCEPT !.step = "metrics", !.outcome = "ValueError",
                                !.upfail = a.upfail, !.get_metrics = 1,
                                !.assigned = TRUE, !.commits = 1,
                                !.committed = (commit = "ok")]]
     ELSE [ok |-> FALSE, abort |-> PeriodicEscapes("Exception", commit),
           t |-> [base EXCEPT !.step = "metrics", !.outcome = a.outcome,
                              !.upfail = a.upfail, !.get_metrics = 1]]

\* One iteration of the loop over active_integrations.  An exception that
\* leaves the loop reaches the outer handler: self.retry, session closed.
PeriodicIteration(e) ==
  /\ pjob.state = "running"
  /\ pjob.idx <= Len(pjob.active_integrations)
  /\ LET i == pjob.active_integrations[pjob.idx]
         row == integrations[i]
         h == PeriodicHandle(row, Attempt(row, e), e.commit)
         retry == CanRetry(pjob.retries, PeriodicMaxRetries)
     IN /\ ptrace' = [ptrace EXCEPT ![i] =
                         [h.t EXCEPT !.params = IF h.t.get_metrics = 1
                                                  THEN Attempt(row, e).params
                                                  ELSE NoParams]]
        /\ integrations' =
             IF h.t.committed
               THEN [integrations EXCEPT ![i] = Touch(row, now)]
               ELSE integrations
        /\ pjob' =
             IF h.abort
               THEN [pjob EXCEPT !.state = IF retry THEN "queued" ELSE "failed",
                                 !.retries = IF retry THEN @ + 1 ELSE @,
                                 !.failed_syncs = @ + 1,
                                 !.aborted_at = pjob.idx,
                                 !.closes = Finally(@, "raise")]
               ELSE [pjob EXCEPT !.idx = @ + 1,
                                 !.successful_syncs = IF h.ok THEN @ + 1 ELSE @,
                                 !.failed_syncs = IF h.ok THEN @ ELSE @ + 1]
  /\ UNCHANGED <<ijob, itrace>>
  /\ UNCHANGED cacheVars

\* The loop is over: the summary is printed and the session closed.
PeriodicFinish ==
  /\ pjob.state = "running"
  /\ pjob.idx > Len(pjob.active_integrations)
  /\ pjob' = [pjob EXCEPT !.state = "done", !.closes = Finally(@, "return")]
  /\ UNCHANGED <<integrations, ijob, itrace, ptrace>>
  /\ UNCHANGED cacheVars

(***************************************************************************)
(* POST /integrations/ (routes/integrations.py, create_integration)        *)
(***************************************************************************)
\* Type tags a client can send: the stored ones and a capitalised one.
RequestTypes == Types \cup {"GitHub"}

NoRequest ==
  [step |-> "idle", type |-> None, id |-> 0, status |-> 0, detail |-> "",
   commit_failed |-> FALSE, enqueue_failed |-> FALSE,
   rows_before |-> 0, jobs_before |-> 0]

\* Variant: the route does not look at the result of the type validation.
ValidatedAlways(v) == TRUE
\* try: get_supported_metrics(type) / except ValueError: HTTP 400
Validated(v) == v.exc = None

\* The handler starts: the type is validated first; an unsupported one is
\* answered with 400 and the message of the ValueError.
RouteReceive(type) ==
  /\ request.step = "idle"
  /\ nrequests < MaxRequests
  /\ nrequests' = nrequests + 1
  /\ LET v == GetSupportedMetrics(type)
         r == [NoRequest EXCEPT !.type = type, !.rows_before = Len(created),
                                !.jobs_before = Len(outbox)]
     IN request' = IF Validated(v)
                     THEN [r EXCEPT !.step = "validated"]
                     ELSE [r EXCEPT !.step = "responded", !.status = 400,
                                    !.detail = v.detail]
  /\ UNCHANGED <<created, outbox>>

\* The project lookup (a default project is created when there is none),
\* then db.add, db.commit and db.refresh of the new row with active=True.
\* An exception before or in the commit leaves no row (rollback); one of
\* the refresh comes after the row was committed.  Either way the answer is
\* 500 and the handler is over.
RouteCommit(project, commit, refresh) ==
  /\ request.step = "validated"
  /\ IF project = "fail" \/ commit = "fail"
       THEN /\ request' = [request EXCEPT !.step = "responded", !.status = 500,
                                          !.commit_failed = TRUE]
            /\ UNCHANGED created
       ELSE /\ created' = Append(created, [type |-> request.type, active |-> TRUE])
            /\ request' = IF refresh = "fail"
                            THEN [request EXCEPT !.step = "responded",
                                                 !.status = 500,
                                                 !.id = Len(created) + 1]
                            ELSE [request EXCEPT !.step = "committed",
                                                 !.id = Len(created) + 1]
  /\ UNCHANGED <<outbox, nrequests>>

\* initial_sync_metrics_task.delay(db_integration.id) in its own try: an
\* exception is logged, the integration is returned with 201 either way.
RouteEnqueue(delay) ==
  /\ request.step = "committed"
  /\ outbox' = IF delay = "ok" THEN Append(outbox, request.id) ELSE outbox
  /\ request' = [request EXCEPT !.step = "responded", !.status = 201,
                                !.enqueue_failed = (delay = "fail")]
  /\ UNCHANGED <<created, nrequests>>

\* The response is sent: the handler is ready for the next request.
RouteDone ==
  /\ request.step = "responded"
  /\ request' = NoRequest
  /\ UNCHANGED <<created, outbox, nrequests>>

QuietRoute ==
  /\ created = <<>>
  /\ outbox = <<>>
  /\ request = NoRequest
  /\ nrequests = 0

RouteStep ==
  \/ \E type \in RequestTypes : RouteReceive(type)
  \/ \E project, commit, refresh \in {"ok", "fail"} :
       RouteCommit(project, commit, refresh)
  \/ \E delay \in {"ok", "fail"} : RouteEnqueue(delay)
  \/ RouteDone

(***************************************************************************)
(* GET /projects/{id}/metrics and GET /teams/{id}/metrics                  *)
(* (routes/projects.py get_project_metrics, routes/teams.py                *)
(* get_team_metrics) and the get_metrics route they call per integration   *)
(***************************************************************************)
\* The SQLAlchemy session of the request (get_db): usable, or with its
\* transaction rolled back by a failed flush, in which state every further
\* statement raises until rollback() is called.
SessionStates == {"active", "inactive"}

Views == {"project", "team"}

\* The `data` of an error envelope: {}
EmptyData == [empty |-> TRUE]

\* What one get_metrics(...) coroutine hands to gather: an exception, or the
\* response dict with its "metrics" entry.
RaisedResult == [kind |-> "exception", metrics |-> Nil]
ErrorMetrics == [kind |-> "response", metrics |-> ErrorResult]
MetricsResponse(m) == [kind |-> "response", metrics |-> m]

\* get_metrics(integration_id, metrics_request, db) of routes/integrations.py
\* as the dashboards call it, for the integration i with the row `row`:
\*   - the row is read through the session (outside any try);
\*   - a supported type without its locator is answered with error metrics;
\*   - create_integration is inside the outer try only: its exception
\*     becomes HTTPException(500);
\*   - IntegrationFactory.get_metrics, the Metric rows and db.commit() are
\*     inside the inner try: any exception there is answered with error
\*     metrics, and no handler calls db.rollback().
\* The data of integration i is tagged i.
MetricsRoute(i, row, session, e) ==
  IF session = "inactive" THEN RaisedResult
  ELSE IF row.type \in Kinds /\ ~row.has_locator THEN ErrorMetrics
  ELSE LET made == CreateIntegration(row.type, row.has_locator, e.create)
           m == GetMetrics(Lower(row.type), PassesKey(row.type, row.has_locator),
                           row.has_locator, e.cache, i, e.up)
       IN IF made # "ok" THEN RaisedResult
          ELSE IF m.exc # None THEN ErrorMetrics
          ELSE IF e.commit = "fail" THEN ErrorMetrics
          ELSE MetricsResponse(m.value)

\* Whether the call got as far as db.commit().
ReachesCommit(row, session, e) ==
  /\ session = "active"
  /\ ~(row.type \in Kinds /\ ~row.has_locator)
  /\ CreateIntegration(row.type, row.has_locator, e.create) = "ok"
  /\ GetMetrics(Lower(row.type), PassesKey(row.type, row.has_locator),
                row.has_locator, e.cache, 0, e.up).exc = None

\* The session after the call: a commit that fails in its flush leaves the
\* transaction rolled back (`after`); nothing else changes the state.
SessionAfter(row, session, e, after) ==
  IF ReachesCommit(row, session, e) /\ e.commit = "fail" THEN after ELSE session

\* isinstance(metrics_data, dict) and "error" in metrics_data
HasErrorKey(m) == m = ErrorResult

\* The loop over the gathered results: one entry of metrics_collection,
\* keyed by integration.id.
Envelope(i, row, r) ==
  IF r.kind = "exception" \/ HasErrorKey(r.metrics)
    THEN [id |-> i, type |-> row.type, has_error |-> TRUE, data |-> EmptyData]
    ELSE [id |-> i, type |-> row.type, has_error |-> FALSE, data |-> r.metrics]

\* The integrations a view lists: the active ones of the project, all of
\* the team.
Listed(view, table) ==
  IF view = "project" THEN ActiveIntegrations(table) ELSE [i \in Ids |-> i]

NoDash ==
  [state |-> "idle", view |-> None, list |-> <<>>, idx |-> 0,
   session |-> "active", results |-> <<>>, alone |-> <<>>, envelopes |-> <<>>]

\* The handler starts: the integrations are queried and one get_metrics
\* coroutine per integration is built, all with the session of the request.
\* Without integrations the answer has no envelopes.
DashOpen(view) ==
  /\ dash.state = "idle"
  /\ LET list == Listed(view, integrations)
     IN dash' = [NoDash EXCEPT !.view = view, !.list = list, !.idx = 1,
                               !.state = IF list = <<>> THEN "responded"
                                                        ELSE "gathering"]

\* asyncio.gather(*tasks, return_exceptions=True): the coroutines contain no
\* await, so each runs to its end in the order of the list.  `alone` keeps
\* what the same call returns on a session nothing else has used.
DashFetch(e, after) ==
  /\ dash.state = "gathering"
  /\ dash.idx <= Len(dash.list)
  /\ LET i == dash.list[dash.idx]
         row == integrations[i]
     IN dash' = [dash EXCEPT
                   !.results = Append(@, MetricsRoute(i, row, dash.session, e)),
                   !.alone = Append(@, MetricsRoute(i, row, "active", e)),
                   !.session = SessionAfter(row, dash.session, e, after),
                   !.idx = @ + 1]

\* The loop after gather: every result becomes the envelope of the
\* integration at the same position.
DashRespond ==
  /\ dash.state = "gathering"
  /\ dash.idx > Len(dash.list)
  /\ dash' = [dash EXCEPT
                !.state = "responded",
                !.envelopes = [k \in 1..Len(dash.list) |->
                                 Envelope(dash.list[k], integrations[dash.list[k]],
                                          dash.results[k])]]

\* The response is sent and the session closed.
DashDone ==
  /\ dash.state = "responded"
  /\ dash' = NoDash

QuietDash == dash = NoDash

DashStep ==
  \/ \E view \in Views : DashOpen(view)
  \/ \E e \in LoopEnvs, after \in SessionStates : DashFetch(e, after)
  \/ DashRespond
  \/ DashDone

(***************************************************************************)
(* GitHubIntegration.calculate_metrics (integrations/github_integration.py)*)
(***************************************************************************)
\* What one of get_pull_requests / get_commits / get_issues returns: a frame
\* of n rows inside the lookback window, `done` of them with merged_at
\* (pull requests) or closed_at (issues) set.
Frames == {f \in [n : 0..MaxItems, done : 0..MaxItems] : f.done <= f.n}
CommitFrames == {f \in Frames : f.done = 0}
NoFrame == [n |-> 0, done |-> 0]

FetchOutcomes == {"ok", "fail"}

\* A quotient of two lengths, kept exact.
Ratio(num, den) == [num |-> num, den |-> den]
Zero == Ratio(0, 1)

\* Variant: the rate is taken over the rows that are not done.
RateOfOpen(done, n) == IF n > 0 THEN Ratio(n - done, n) ELSE Zero
\* len(merged_prs) / len(prs) if len(prs) > 0 else 0
Rate(done, n) == IF n > 0 THEN Ratio(done, n) ELSE Zero

\* A metrics dict: the keys it holds and the value of each key that the
\* claims look at (a field whose key is absent keeps its filler value).
\* avg_time_to_merge_hours, avg_commit_size, author_distribution,
\* avg_time_to_close_hours and message appear as keys only.
EmptyDict ==
  [keys |-> {}, pr_count |-> 0, pr_merge_rate |-> Zero, commit_count |-> 0,
   issue_count |-> 0, issue_close_rate |-> Zero, status |-> "",
   no_activity |-> FALSE, error |-> FALSE]

\* if not prs.empty: ... (lines 133-142)
WithPRs(m, prs) ==
  IF prs.n = 0 THEN m
  ELSE [m EXCEPT !.keys = @ \cup {"pr_count", "pr_merge_rate"}
                            \cup (IF prs.done > 0 THEN {"avg_time_to_merge_hours"}
                                                  ELSE {}),
                 !.pr_count = prs.n,
                 !.pr_merge_rate = Rate(prs.done, prs.n)]

\* if not commits.empty: ... (lines 145-151)
WithCommits(m, commits) ==
  IF commits.n = 0 THEN m
  ELSE [m EXCEPT !.keys = @ \cup {"commit_count", "avg_commit_size",
                                  "author_distribution"},
                 !.commit_count = commits.n]

\* if not issues.empty: ... (lines 154-163)
WithIssues(m, issues) ==
  IF issues.n = 0 THEN m
  ELSE [m EXCEPT !.keys = @ \cup {"issue_count", "issue_close_rate"}
                            \cup (IF issues.done > 0 THEN {"avg_time_to_close_hours"}
                                                     ELSE {}),
                 !.issue_count = issues.n,
                 !.issue_close_rate = Rate(issues.done, issues.n)]

\* Variant: the placeholder is chosen by the pull requests alone.
NoPullRequests(m) == "pr_count" \notin m.keys
\* if not metrics:
NotMetrics(m) == m.keys = {}

\* Lines 165-175: the placeholder of an inactive repository, or the status
\* of an active one.
WithStatus(m) ==
  IF NotMetrics(m)
    THEN [m EXCEPT !.keys = @ \cup {"no_activity", "message", "status", "pr_count",
                                    "commit_count", "issue_count"},
                   !.no_activity = TRUE, !.status = "valid_but_inactive",
                   !.pr_count = 0, !.commit_count = 0, !.issue_count = 0]
    ELSE [m EXCEPT !.keys = @ \cup {"status"}, !.status = "active"]

\* Lines 130-178.
Aggregate(prs, commits, issues) ==
  WithStatus(WithIssues(WithCommits(WithPRs(EmptyDict, prs), commits), issues))

\* return {"error": True, "message": ...}
GitHubError == [EmptyDict EXCEPT !.keys = {"error", "message"}, !.error = TRUE]

\* Variant: only a ValueError (repository not set) is handled.
ExceptValueError(exc) == exc = "ValueError"
\* except Exception as e:
ExceptException(exc) == exc \in {"ValueError", "Exception"}

NoGitHubCall ==
  [pc |-> "idle", days |-> 0, prs |-> NoFrame, commits |-> NoFrame,
   issues |-> NoFrame, failed_at |-> None, fetched |-> 0, ret |-> EmptyDict,
   returned |-> FALSE, raised |-> None]

\* calculate_metrics(days) is called.
GitHubCall(days) ==
  /\ gh.pc = "idle"
  /\ gh' = [NoGitHubCall EXCEPT !.pc = "prs", !.days = days]

\* An exception raised inside the try at the step `at`: the handler returns
\* the error dict; what it does not handle reaches the caller.
GitHubRaise(at, exc) ==
  IF ExceptException(exc)
    THEN [gh EXCEPT !.pc = "done", !.failed_at = at, !.ret = GitHubError,
                    !.returned = TRUE]
    ELSE [gh EXCEPT !.pc = "done", !.failed_at = at, !.raised = exc]

\* The exceptions a fetch can raise: ValueError when no repository is set,
\* anything the GitHub client raises otherwise.
GitHubExceptions == {"ValueError", "Exception"}

\* prs = self.get_pull_requests(days=days)
GetPullRequests(out, exc, f) ==
  /\ gh.pc = "prs"
  /\ gh' = IF out = "ok"
             THEN [gh EXCEPT !.pc = "commits", !.prs = f, !.fetched = @ + 1]
             ELSE GitHubRaise("prs", exc)

\* commits = self.get_commits(days=days)
GetCommits(out, exc, f) ==
  /\ gh.pc = "commits"
  /\ gh' = IF out = "ok"
             THEN [gh EXCEPT !.pc = "issues", !.commits = f, !.fetched = @ + 1]
             ELSE GitHubRaise("commits", exc)

\* issues = self.get_issues(days=days)
GetIssues(out, exc, f) ==
  /\ gh.pc = "issues"
  /\ gh' = IF out = "ok"
             THEN [gh EXCEPT !.pc = "aggregate", !.issues = f, !.fetched = @ + 1]
             ELSE GitHubRaise("issues", exc)

\* The aggregation over the three frames; a pandas operation in it can
\* raise as well.
GitHubAggregate(out) ==
  /\ gh.pc = "aggregate"
  /\ gh' = IF out = "ok"
             THEN [gh EXCEPT !.pc = "done", !.returned = TRUE,
                             !.ret = Aggregate(gh.prs, gh.commits, gh.issues)]
             ELSE GitHubRaise("aggregate", "Exception")

\* The caller has the result; the adapter can be called again.
GitHubReturn ==
  /\ gh.pc = "done"
  /\ gh' = NoGitHubCall

QuietGitHub == gh = NoGitHubCall


GitHubSteps ==
  \/ \E days \in DaysValues : GitHubCall(days)
  \/ \E out \in FetchOutcomes, exc \in GitHubExceptions, f \in Frames :
       GetPullRequests(out, exc, f)
  \/ \E out \in FetchOutcomes, exc \in GitHubExceptions, f \in CommitFrames :
       GetCommits(out, exc, f)
  \/ \E out \in FetchOutcomes, exc \in GitHubExceptions, f \in Frames :
       GetIssues(out, exc, f)
  \/ \E out \in FetchOutcomes : GitHubAggregate(out)
  \/ GitHubReturn


(***************************************************************************)
(* POST /integrations/{id}/metrics (routes/integrations.py, get_metrics),  *)
(* with the texts of the errors                                            *)
(***************************************************************************)
\* A text is the sequence of its parts; `x in text` looks for a part.
Contains(text, part) == \E k \in DOMAIN text : text[k] = part

\* What the upstream does when the adapter fetches: the outcomes of
\* UpstreamOutcomes, and for GitHub the 409 of a repository without commits.
Conditions == UpstreamOutcomes \cup {"empty_repository"}

\* str(e) of the exception the client library raises.
UpstreamText(cond) ==
  IF cond = "empty_repository" THEN <<"409", "Git Repository is empty">>
  ELSE IF cond = "http_error" THEN <<"503", "Service Unavailable">>
  ELSE <<"connection reset">>

\* The outcome as the adapters' exception handling sees it: the 409 is an
\* exception like any other.
AsOutcome(cond) == IF cond = "empty_repository" THEN "other_error" ELSE cond

FriendlyEmptyRepository ==
  <<"The GitHub repository is empty. Please make at least one commit before syncing.">>
GenericFailure ==
  <<"Failed to retrieve metrics. Please check your integration configuration.">>
RepositoryNotConfigured ==
  <<"Repository name not configured. Please edit the integration to add a repository.">>
KeyNotProvided == <<"Project key not provided. Please specify a project_key in your request.">>
BoardNotProvided == <<"Board ID not provided. Please specify a board_id in your request.">>

\* Values of a response dict: True, a text, or no such key.
BoolTrue == [t |-> "bool", text |-> <<>>]
TextValue(text) == [t |-> "str", text |-> text]
NoValue == [t |-> "none", text |-> <<>>]

\* The `metrics` entry of a response: its keys, the values of "error" and
\* "message", and whether it holds computed figures.
NoMetricsDict == [keys |-> {}, error |-> NoValue, message |-> NoValue, figures |-> FALSE]
\* {"error": text}
ErrorOnly(text) == [NoMetricsDict EXCEPT !.keys = {"error"}, !.error = TextValue(text)]
\* GitHubIntegration.calculate_metrics: {"error": True, "message": f"Error calculating metrics: {str(e)}"}
AdapterError(text) ==
  [NoMetricsDict EXCEPT !.keys = {"error", "message"}, !.error = BoolTrue,
                        !.message = TextValue(<<"Error calculating metrics: ">> \o text)]
ComputedMetrics == [NoMetricsDict EXCEPT !.keys = {"status"}, !.figures = TRUE]

\* The adapter's calculate_metrics with the text of what it raises: by
\* CalculateMetrics, GitHub returns the error dict, Jira lets the exception
\* through, Trello wraps a RequestException in a ValueError.
CalculateWithText(kind, cond) ==
  LET c == [kind |-> kind, locator |-> "B1", days |-> DefaultDays, style |-> "kw",
            account |-> "acct1"]
      r == CalculateMetrics(c, 0, AsOutcome(cond))
  IN IF cond = "ok" THEN [exc |-> None, text |-> <<>>, dict |-> ComputedMetrics]
     ELSE IF r.exc = None
       THEN [exc |-> None, text |-> <<>>, dict |-> AdapterError(UpstreamText(cond))]
     ELSE IF r.exc = "ValueError"
       THEN [exc |-> "ValueError", dict |-> NoMetricsDict,
             text |-> <<"Failed to fetch Trello cards: ">> \o UpstreamText(cond)]
     ELSE [exc |-> r.exc, text |-> UpstreamText(cond), dict |-> NoMetricsDict]

\* except Exception as e: if "409" in error_str and "Git Repository is empty" in error_str
IsEmptyRepository(text) ==
  Contains(text, "409") /\ Contains(text, "Git Repository is empty")

\* The handlers of the inner try (lines 348-381) for what get_metrics and
\* the commit did: the dict to answer with.
AnswerMetrics(exc, text, dict) ==
  IF exc = "ValueError" THEN ErrorOnly(text)
  ELSE IF exc # None
    THEN IF IsEmptyRepository(text) THEN ErrorOnly(FriendlyEmptyRepository)
                                    ELSE ErrorOnly(GenericFailure)
  ELSE dict

NoMetricsRequest ==
  [step |-> "idle", id |-> 0, type |-> None, cond |-> "ok", fetched |-> FALSE,
   computed |-> NoMetricsDict, status |-> 0, detail |-> <<>>,
   metrics |-> NoMetricsDict]

Answer(r, status, detail, metrics) ==
  [r EXCEPT !.step = "responded", !.status = status, !.detail = detail,
            !.metrics = metrics]

\* The handler starts: the row is read (404 without one), then a supported
\* type without its locator is answered with error metrics.  key_given:
\* the request carries project_key / board_id.  Id 0 is an id without row.
MetricsReceive(i, key_given) ==
  /\ mreq.step = "idle"
  /\ IF i \notin Ids
       THEN mreq' = Answer([NoMetricsRequest EXCEPT !.id = i], 404,
                           <<"Integration not found">>, NoMetricsDict)
       ELSE LET row == integrations[i]
                r == [NoMetricsRequest EXCEPT !.id = i, !.type = row.type]
            IN mreq' =
                 IF row.type = "github" /\ ~row.has_locator
                   THEN Answer(r, 200, <<>>, ErrorOnly(RepositoryNotConfigured))
                 ELSE IF row.type = "jira" /\ ~key_given
                   THEN Answer(r, 200, <<>>, ErrorOnly(KeyNotProvided))
                 ELSE IF row.type = "trello" /\ ~key_given
                   THEN Answer(r, 200, <<>>, ErrorOnly(BoardNotProvided))
                 ELSE [r EXCEPT !.step = "checked"]

\* IntegrationFactory.create_integration, inside the outer try only: what it
\* raises becomes HTTPException(500) with str(e) as detail.
MetricsCreate(c, cond) ==
  /\ mreq.step = "checked"
  /\ c = "fail" => cond # "ok"
  /\ cond = "empty_repository" => mreq.type = "github"
  /\ LET made == CreateIntegration(mreq.type, integrations[mreq.id].has_locator, c)
     IN mreq' =
          IF made = "ok" THEN [mreq EXCEPT !.step = "created"]
          ELSE IF ~Supported(mreq.type)
            THEN Answer(mreq, 500, <<CreateDetail(mreq.type)>>, NoMetricsDict)
          ELSE Answer([mreq EXCEPT !.cond = cond], 500,
                      <<"Could not access repository: ">> \o UpstreamText(cond),
                      NoMetricsDict)

\* IntegrationFactory.get_metrics(integration_instance, metrics_config): the
\* adapter fetches from the upstream; an exception goes to the handlers of
\* the inner try.
MetricsCompute(cond) ==
  /\ mreq.step = "created"
  /\ cond = "empty_repository" => mreq.type = "github"
  /\ LET m == CalculateWithText(Lower(mreq.type), cond)
         r == [mreq EXCEPT !.cond = cond, !.fetched = TRUE, !.computed = m.dict]
     IN mreq' = IF m.exc # None
                  THEN Answer(r, 200, <<>>, AnswerMetrics(m.exc, m.text, m.dict))
                  ELSE [r EXCEPT !.step = "computed"]

\* The Metric rows, last_sync and db.commit(); an exception of the commit is
\* answered by the generic handler.
MetricsStore(commit) ==
  /\ mreq.step = "computed"
  /\ mreq' = IF commit = "ok"
               THEN Answer(mreq, 200, <<>>, AnswerMetrics(None, <<>>, mreq.computed))
               ELSE Answer(mreq, 200, <<>>,
                           AnswerMetrics("Exception", <<"database error">>,
                                         mreq.computed))

\* The response is sent.
MetricsDone ==
  /\ mreq.step = "responded"
  /\ mreq' = NoMetricsRequest

QuietMetrics == mreq = NoMetricsRequest

MetricsStep ==
  \/ \E i \in Ids \cup {0}, key_given \in BOOLEAN : MetricsReceive(i, key_given)
  \/ \E c \in ConstructOutcomes, cond \in Conditions : MetricsCreate(c, cond)
  \/ \E cond \in Conditions : MetricsCompute(cond)
  \/ \E commit \in {"ok", "fail"} : MetricsStore(commit)
  \/ MetricsDone

(***************************************************************************)
(* JiraIntegration.calculate_metrics (integrations/jira_integration.py)    *)
(***************************************************************************)
\* What get_issues returns: n issues created in the window, `done` of them
\* with a status in Done / Closed / Resolved; whether any completed issue
\* carries story points and whether any issue has an assignee.
IssueFrames ==
  {f \in [n : 0..MaxItems, done : 0..MaxItems, points : BOOLEAN,
          assigned : BOOLEAN] :
     /\ f.done <= f.n
     /\ f.points => f.done > 0
     /\ f.assigned => f.n > 0}
NoIssues == [n |-> 0, done |-> 0, points |-> FALSE, assigned |-> FALSE]

\* What get_sprints returns for the first board: the numbers of sprints by
\* state (future sprints are in neither count).
SprintFrames ==
  {f \in [active : 0..MaxItems, closed : 0..MaxItems, future : 0..1] :
     f.active + f.closed + f.future <= MaxItems}
NoSprints == [active |-> 0, closed |-> 0, future |-> 0]

\* A metrics dict of the Jira adapter: its keys; the number of issues
\* behind the per-type and per-status counts; the sprint counts; the text
\* of sprint_error.
EmptyJiraDict ==
  [keys |-> {}, issues |-> 0, active_sprint_count |-> 0,
   completed_sprint_count |-> 0, sprint_error |-> <<>>]

\* Lines 96-116: the figures derived from the issues.
IssueMetrics(f) ==
  IF f.n = 0 THEN EmptyJiraDict
  ELSE [EmptyJiraDict EXCEPT
          !.keys = {"issue_counts_by_type", "issue_counts_by_status"}
                     \cup (IF f.points THEN {"completed_story_points"} ELSE {})
                     \cup (IF f.assigned THEN {"assignee_distribution"} ELSE {}),
          !.issues = f.n]

\* Lines 126-132: the sprint counts, when the board has sprints.
WithSprints(m, f) ==
  IF f.active + f.closed + f.future = 0 THEN m
  ELSE [m EXCEPT !.keys = @ \cup {"active_sprint_count", "completed_sprint_count"},
                 !.active_sprint_count = f.active,
                 !.completed_sprint_count = f.closed]

\* Variant: the handler answers with the error alone.
OnlySprintError(m, text) ==
  [EmptyJiraDict EXCEPT !.keys = {"sprint_error"}, !.sprint_error = text]
\* except Exception as e: metrics["sprint_error"] = str(e)
WithSprintError(m, text) ==
  [m EXCEPT !.keys = @ \cup {"sprint_error"}, !.sprint_error = text]

NoJiraCall ==
  [pc |-> "idle", has_key |-> FALSE, issues |-> NoIssues, boards |-> 0,
   failed_at |-> None, metrics |-> EmptyJiraDict, ret |-> EmptyJiraDict,
   returned |-> FALSE, raised |-> None]

\* calculate_metrics(project_key, days) is called.
JiraCall ==
  /\ jr.pc = "idle"
  /\ jr' = [NoJiraCall EXCEPT !.pc = "issues", !.has_key = TRUE]

\* issues = self.get_issues(project_key, days), outside any try: what it
\* raises reaches the caller.  Then the issue figures are computed.
JiraGetIssues(out, f) ==
  /\ jr.pc = "issues"
  /\ jr' = IF out = "ok"
             THEN [jr EXCEPT !.pc = "boards", !.issues = f,
                             !.metrics = IssueMetrics(f)]
             ELSE [jr EXCEPT !.pc = "done", !.failed_at = "issues",
                             !.raised = "Exception"]

\* The return after the sprint block, or after its handler.
JiraFinish(r, m) == [r EXCEPT !.pc = "done", !.ret = m, !.returned = TRUE]

\* boards = self.get_boards(project_key), inside the try: a project without
\* boards skips the sprints.
JiraGetBoards(out, cond, n) ==
  /\ jr.pc = "boards"
  /\ jr' = IF out = "ok"
             THEN IF n = 0 THEN JiraFinish([jr EXCEPT !.boards = 0], jr.metrics)
                  ELSE [jr EXCEPT !.pc = "sprints", !.boards = n]
             ELSE JiraFinish([jr EXCEPT !.failed_at = "boards"],
                             WithSprintError(jr.metrics, UpstreamText(cond)))

\* sprints = self.get_sprints(board_id) for the first board, inside the try.
JiraGetSprints(out, cond, f) ==
  /\ jr.pc = "sprints"
  /\ jr' = IF out = "ok"
             THEN JiraFinish(jr, WithSprints(jr.metrics, f))
             ELSE JiraFinish([jr EXCEPT !.failed_at = "sprints"],
                             WithSprintError(jr.metrics, UpstreamText(cond)))

\* The caller has the result; the adapter can be called again.
JiraReturn ==
  /\ jr.pc = "done"
  /\ jr' = NoJiraCall

QuietJira == jr = NoJiraCall

QuietAdapters == QuietGitHub /\ QuietJira

JiraSteps ==
  \/ JiraCall
  \/ \E out \in FetchOutcomes, f \in IssueFrames : JiraGetIssues(out, f)
  \/ \E out \in FetchOutcomes, cond \in UpstreamOutcomes \ {"ok"}, n \in 0..1 :
       JiraGetBoards(out, cond, n)
  \/ \E out \in FetchOutcomes, cond \in UpstreamOutcomes \ {"ok"},
        f \in SprintFrames : JiraGetSprints(out, cond, f)
  \/ JiraReturn

GitHubStep == GitHubSteps /\ UNCHANGED jr

JiraStep == JiraSteps /\ UNCHANGED gh

(***************************************************************************)
(* Specifications                                                          *)
(***************************************************************************)
QuietSync ==
  /\ integrations =
       [i \in Ids |-> [type |-> "github", has_locator |-> TRUE, active |-> TRUE,
                       last_sync |-> NullTime, updated_at |-> NullTime]]
  /\ ijob = NoJob
  /\ pjob = NoBatch
  /\ itrace = NoTrace
  /\ ptrace = [i \in Ids |-> NoTrace]

InitCacheSpec ==
  InitCache /\ QuietSync /\ QuietRoute /\ QuietDash /\ QuietAdapters
    /\ QuietMetrics

\* One caller at a time is enough to look at the key of a call.
KeyCaller == "a"

NextKey ==
  (\E call \in KeyCalls : DeriveKey(KeyCaller, call))
    /\ UNCHANGED <<syncVars, routeVars, dashVars, adapterVars, metricsVars>>

SpecKey == InitCacheSpec /\ [][NextKey]_vars

SpecCache == InitCacheSpec /\ [][NextCache]_vars

InitSync ==
  /\ InitCache
  /\ redis_client = TRUE
  /\ integrations \in [Ids -> SyncRows]
  /\ ijob = NoJob
  /\ pjob = NoBatch
  /\ itrace = NoTrace
  /\ ptrace = [i \in Ids |-> NoTrace]
  /\ QuietRoute
  /\ QuietDash
  /\ QuietAdapters
  /\ QuietMetrics

SyncStep ==
  \/ \E i \in JobIds : EnqueueInitial(i)
  \/ \E e \in Envs : InitialRun(e)
  \/ InitialForget
  \/ PeriodicSchedule
  \/ \E q \in {"ok", "fail"} : PeriodicStart(q)
  \/ \E e \in LoopEnvs : PeriodicIteration(e)
  \/ PeriodicFinish

NextSync ==
  SyncStep /\ UNCHANGED <<routeVars, dashVars, adapterVars, metricsVars>>

SpecSync == InitSync /\ [][NextSync]_vars

\* The initial sync on its own: jobs are enqueued, executed and forgotten.
InitialStep ==
  \/ \E i \in JobIds : EnqueueInitial(i)
  \/ \E e \in Envs : InitialRun(e)
  \/ InitialForget

NextInitial ==
  InitialStep /\ UNCHANGED <<routeVars, dashVars, adapterVars, metricsVars>>

\* The worker runs a queued job: a job that is queued (enqueued by the
\* route, or re-queued by self.retry after its delay) is executed.
\* The environments are taken by what the query does, the failing query
\* first: every environment is listed, so this is \E e \in Envs.
WorkerRuns ==
  (\E k \in 1..2 :
     \E e \in {x \in Envs : x.query = <<"fail", "ok">>[k]} : InitialRun(e))
    /\ UNCHANGED <<routeVars, dashVars, adapterVars, metricsVars>>

SpecInitialFair == InitSync /\ [][NextInitial]_vars /\ WF_vars(WorkerRuns)

NextRoute ==
  RouteStep
    /\ UNCHANGED <<cacheVars, syncVars, dashVars, adapterVars, metricsVars>>

SpecRoute == InitCacheSpec /\ [][NextRoute]_vars

InitDash ==
  /\ InitCache
  /\ redis_client = TRUE
  /\ integrations \in [Ids -> Rows]
  /\ ijob = NoJob
  /\ pjob = NoBatch
  /\ itrace = NoTrace
  /\ ptrace = [i \in Ids |-> NoTrace]
  /\ QuietRoute
  /\ QuietDash
  /\ QuietAdapters
  /\ QuietMetrics

NextDash ==
  DashStep
    /\ UNCHANGED <<cacheVars, syncVars, routeVars, adapterVars, metricsVars>>

SpecDash == InitDash /\ [][NextDash]_vars

NextGitHub ==
  GitHubStep
    /\ UNCHANGED <<cacheVars, syncVars, routeVars, dashVars, metricsVars>>

SpecGitHub == InitCacheSpec /\ [][NextGitHub]_vars

NextJira ==
  JiraStep
    /\ UNCHANGED <<cacheVars, syncVars, routeVars, dashVars, metricsVars>>

SpecJira == InitCacheSpec /\ [][NextJira]_vars

NextMetrics ==
  MetricsStep
    /\ UNCHANGED <<cacheVars, syncVars, routeVars, dashVars, adapterVars>>

SpecMetrics == InitDash /\ [][NextMetrics]_vars

(***************************************************************************)
(* Properties of the memoizing wrapper                                     *)
(***************************************************************************)
Finished(p) == pc[p] = "done"

\* C1: on a cache hit the wrapper returns the deserialized cached value (the
\* value whose JSON text the store returned), the wrapped function is
\* invoked zero times and no cache write is performed.
C1_HitReturnsCachedWithoutCompute ==
  \A p \in Callers :
    (Finished(p) /\ stats[p].hit) =>
      /\ Dumps(ret[p]) = stats[p].got
      /\ stats[p].calls = 0
      /\ stats[p].writes = 0
      /\ raised[p] = None

C1_Witness ==
  \E p \in Callers : Finished(p) /\ stats[p].hit /\ stats[p].got # Nil

\* C2: on a cache miss on which the wrapped function returns, the function
\* was invoked exactly once, its result is what the caller gets, and exactly
\* one cache write was made, under the key that was read and with the
\* decorator's TTL of 1800 seconds.
C2_MissComputesOnceWritesOnce ==
  \A p \in Callers :
    (Finished(p) /\ via[p] = "wrapper" /\ stats[p].reads = 1 /\ ~stats[p].hit
       /\ ~stats[p].geterr /\ raised[p] = None) =>
      /\ stats[p].calls = 1
      /\ ret[p] = result[p]
      /\ ret[p] # Nil
      /\ stats[p].writes = 1
      /\ stats[p].wkey = stats[p].rkey
      /\ stats[p].wttl = 1800

C2_Witness ==
  \E p \in Callers :
    /\ Finished(p) /\ via[p] = "wrapper" /\ ~stats[p].hit /\ ~stats[p].geterr
    /\ raised[p] = None /\ stats[p].writes = 1
    /\ store[stats[p].wkey].val = Dumps(ret[p])

\* C12: when the module holds no cache client, a decorated call (one the
\* factory did not reject before making it) computes directly: the function is invoked exactly once, no cache read and no
\* cache write is attempted, no cache error reaches the caller, and when the
\* function returns its result is what the caller gets.
C12_NoClientComputesDirectly ==
  \A p \in Callers :
    (Finished(p) /\ Decorated(args[p].kind) /\ ~redis_client
       /\ via[p] # "factory") =>
      /\ stats[p].calls = 1
      /\ stats[p].reads = 0
      /\ stats[p].writes = 0
      /\ raised[p] \notin {"RedisError", "TypeError"}
      /\ raised[p] = None => (ret[p] = result[p] /\ ret[p] # Nil)

C12_Witness ==
  \E p \in Callers :
    /\ Finished(p) /\ Decorated(args[p].kind) /\ ~redis_client
    /\ via[p] = "bypass" /\ stats[p].calls = 1 /\ raised[p] = None
    /\ ret[p] # Nil

(***************************************************************************)
(* Properties of the cache key                                             *)
(***************************************************************************)
\* The key was derived for the call in args.
KeyDerived == via[KeyCaller] = "key"

\* Two calls that mean the same: same adapter class and method, same
\* locator, same lookback window.
SameCall(c1, c2) ==
  c1.kind = c2.kind /\ c1.locator = c2.locator /\ c1.days = c2.days

\* C13: two semantically equivalent calls get the same cache key, whether
\* locator and days are passed positionally or by keyword and whether days
\* is omitted or given as its default 30.
C13_EquivalentCallsShareKey ==
  \A c1, c2 \in Calls :
    (KeyDerived /\ args[KeyCaller] = PyCall(c1) /\ SameCall(c1, c2)) =>
      final_cache_key[KeyCaller] = WrapperKey(PyCall(c2))

C13_Witness ==
  \E c1, c2 \in Calls :
    /\ KeyDerived /\ args[KeyCaller] = PyCall(c1) /\ SameCall(c1, c2)
    /\ c1.kind = "trello" /\ c1.style = "default" /\ c2.style = "kw"
    /\ final_cache_key[KeyCaller] = "TrelloIntegration:calculate_metrics:board_id:B1:days:30"

\* The call without the arguments whose names are not recognized.
WithoutOthers(call) ==
  [call EXCEPT !.kw = [n \in DOMAIN call.kw \cap {"project_key", "board_id", "days"}
                         |-> call.kw[n]]]

\* The caller passed None for parameter n (positionally or by keyword).
PassedNone(call, n) ==
  \/ \E k \in 1..Len(call.pos) : Signature(call.kind)[k] = n /\ call.pos[k] = NoneV
  \/ n \in DOMAIN call.kw /\ call.kw[n] = NoneV

\* Every segment parameter n could put into a key.
SegmentsOf(n) == {n \o ":" \o Str(v) : v \in ValuesOf(n)} \cup {n \o ":"}

Given(call, n) ==
  IF \E k \in 1..Len(call.pos) : Signature(call.kind)[k] = n
    THEN call.pos[CHOOSE k \in 1..Len(call.pos) : Signature(call.kind)[k] = n]
  ELSE IF n \in DOMAIN call.kw THEN call.kw[n]
  ELSE IF n = "days" THEN IntV(30)
  ELSE NoneV

C16_MissingLocatorRejectedFirst ==
  \A p \in Callers :
    (Finished(p) /\ args[p].kind \in {"jira", "trello"}
       /\ args[p].locator \in {None, ""}) =>
      /\ raised[p] = "ValueError"
      /\ stats[p].calls = 0
      /\ stats[p].reads = 0
      /\ stats[p].writes = 0
      /\ ret[p] = Nil

C16_Witness ==
  \E p, q \in Callers :
    /\ Finished(p) /\ args[p].kind = "trello" /\ args[p].locator = ""
    /\ raised[p] = "ValueError"
    /\ Finished(q) /\ args[q].kind = "jira" /\ args[q].locator = None
    /\ raised[q] = "ValueError"

\* C11, as claimed: on a miss on which the function returned a result, a
\* failure of the write step (json.dumps of the result, or setex) is
\* swallowed: the caller gets the computed result and no exception.
C11_WriteFailureIsSwallowed ==
  \A p \in Callers :
    (Finished(p) /\ via[p] = "wrapper" /\ ~stats[p].hit
       /\ stats[p].calls = 1 /\ result[p] # Nil) =>
      /\ raised[p] = None
      /\ ret[p] = result[p]

\* C9, as claimed: for each adapter, when the store is reachable and
\* calculate_metrics is called twice with the same locator and days within
\* the TTL, the second call returns the first call's result and performs no
\* upstream fetch (the method body is not run).
C9_SecondCallServedFromCache ==
  \A p \in Callers :
    (/\ Finished(p) /\ raised[p] = None
     /\ redis_client /\ ~stats[p].geterr /\ ~stats[p].seterr
     /\ stats[p].follows /\ prev.clean
     /\ prev.call.kind = args[p].kind
     /\ prev.call.locator = args[p].locator
     /\ prev.call.days = args[p].days
     /\ now - prev.at < TTLSeconds(args[p].kind)) =>
      /\ ret[p] = prev.ret
      /\ stats[p].calls = 0

\* C10: when the cache read fails with a cache-store error the wrapper goes
\* on as on a miss: the function is invoked exactly once, its result is
\* returned, the cache write is still attempted, and no cache error reaches
\* the caller.
C10_ReadErrorProceedsAsMiss ==
  \A p \in Callers :
    (Finished(p) /\ stats[p].geterr) =>
      /\ stats[p].calls = 1
      /\ raised[p] # "RedisError"
      /\ raised[p] = None =>
            (ret[p] = result[p] /\ ret[p] # Nil /\ stats[p].writes = 1)

C10_Witness ==
  \E p \in Callers :
    /\ Finished(p) /\ stats[p].geterr /\ raised[p] = None
    /\ stats[p].calls = 1 /\ stats[p].writes = 1 /\ ret[p] # Nil

(***************************************************************************)
(* Properties of the sync tasks                                            *)
(***************************************************************************)
ActiveIds == {pjob.active_integrations[k] : k \in 1..Len(pjob.active_integrations)}

\* The periodic run is over: the loop ended or an exception left it.
RunOver == pjob.state = "done" \/ pjob.aborted_at > 0

\* A non-configuration exception raised by get_metrics for integration i.
ComputationRaised(i) ==
  ptrace[i].step = "metrics" /\ ptrace[i].outcome = "Exception"

\* Integration i reached get_metrics and nothing but (at most) a
\* configuration error was raised while it was processed.
ComputedCleanly(i) ==
  /\ ptrace[i].step = "metrics"
  /\ ptrace[i].outcome \in {"ok", "ValueError"}
  /\ ~(ptrace[i].commits > 0 /\ ~ptrace[i].committed)

\* C3: in a periodic run over N active integrations in which exactly one
\* integration raises a non-configuration exception during metric
\* computation (the others being computed without such an exception), the
\* others all have last_sync updated, the failing one has not, and the task
\* completes without raising, wherever the failing one stands in the batch.
C3_OneFailureIsIsolated ==
  \A j \in Ids :
    (/\ RunOver
     /\ j \in ActiveIds
     /\ ComputationRaised(j)
     /\ \A i \in ActiveIds \ {j} : ptrace[i].task = "periodic" => ComputedCleanly(i)) =>
      /\ pjob.state = "done"
      /\ pjob.aborted_at = 0
      /\ \A i \in ActiveIds \ {j} :
           /\ ptrace[i].task = "periodic"
           /\ ptrace[i].assigned /\ ptrace[i].committed
           /\ integrations[i].last_sync = TimeAt(now)
           /\ integrations[i].updated_at = TimeAt(now)
      /\ integrations[j].last_sync = ptrace[j].before
      /\ ~ptrace[j].assigned

C3_Witness ==
  /\ pjob.state = "done"
  /\ Len(pjob.active_integrations) >= 2
  /\ ComputationRaised(pjob.active_integrations[1])
  /\ ~integrations[pjob.active_integrations[1]].last_sync.set
  /\ \A k \in 2..Len(pjob.active_integrations) :
       /\ ComputedCleanly(pjob.active_integrations[k])
       /\ integrations[pjob.active_integrations[k]].last_sync.set

\* C4: when the metric computation of the initial sync fails with a
\* non-configuration exception, that execution sets no last_sync and commits
\* nothing; the task is re-queued while fewer than 3 retries were made and
\* is abandoned on the execution after the third retry.
C4_TransientRetriedThenAbandoned ==
  /\ ijob.retries <= InitialMaxRetries
  /\ ijob.runs <= InitialMaxRetries + 1
  /\ (itrace.step = "metrics" /\ itrace.outcome = "Exception") =>
       /\ ~itrace.assigned
       /\ itrace.commits = 0
       /\ integrations[ijob.id].last_sync = itrace.before
       /\ IF itrace.retried
            THEN ijob.state = "queued" /\ ijob.retries = ijob.runs
                 /\ ijob.retries <= 3
            ELSE ijob.state = "abandoned" /\ ijob.retries = 3 /\ ijob.runs = 4

C4_Witness ==
  /\ ijob.state = "abandoned"
  /\ itrace.step = "metrics" /\ itrace.outcome = "Exception"
  /\ ijob.runs = 4
  /\ ~integrations[ijob.id].last_sync.set

\* C5: when the initial sync ends in a configuration error, last_sync is set
\* and committed exactly once (one commit call, which stores the timestamp
\* when it returns) and the task is not retried.
C5_ConfigErrorBumpsOnceNoRetry ==
  (itrace.step = "metrics" /\ itrace.outcome = "ValueError") =>
    /\ itrace.assigned
    /\ itrace.commits = 1
    /\ ~itrace.retried
    /\ ijob.state \in {"skipped_config", "failed"}
    /\ itrace.committed =>
         /\ ijob.state = "skipped_config"
         /\ integrations[ijob.id].last_sync = TimeAt(now)

C5_Witness ==
  /\ ijob.state = "skipped_config"
  /\ ijob.runs = 1
  /\ integrations[ijob.id].type = "jira"
  /\ ~integrations[ijob.id].has_locator
  /\ integrations[ijob.id].last_sync.set

\* C6, as claimed: in both tasks, whenever the upstream retrieval fails
\* during an integration's metric computation, its last_sync is left
\* unchanged (last_sync is only updated on success or configuration skip).
C6_UpstreamFailureLeavesLastSync ==
  /\ itrace.upfail =>
       (~itrace.committed /\ integrations[ijob.id].last_sync = itrace.before)
  /\ \A i \in Ids :
       ptrace[i].upfail =>
         (~ptrace[i].committed /\ integrations[i].last_sync = ptrace[i].before)

MissingLocator(row) == row.type \in {"jira", "trello"} /\ ~row.has_locator

C8_NoFailureLeavesTheLoop ==
  /\ pjob.aborted_at = 0
  /\ pjob.retries > 0 => \A i \in Ids : ptrace[i].task # "periodic"
\* The stored tag of integration i is none of the three supported kinds.
UnsupportedRow(i) ==
  i \in Ids
    /\ integrations[i].type \notin {"github", "jira", "trello", "GitHub", "Jira"}

\* The periodic run was left (and the batch retried or failed) while
\* integration i was being processed.
AbortedAt(i) ==
  pjob.aborted_at > 0 /\ pjob.active_integrations[pjob.aborted_at] = i

C19_TransientRetriedAtAnyStep ==
  (/\ itrace.task = "initial"
   /\ ijob.runs <= 3
   /\ \/ itrace.step = "query"
      \/ /\ itrace.step = "create"
         /\ integrations[ijob.id].type \in {"github", "jira"}
      \/ itrace.step = "metrics" /\ itrace.outcome = "Exception") =>
    (itrace.retried /\ ijob.state = "queued")

(***************************************************************************)
(* Properties of the create route                                          *)
(***************************************************************************)
\* How many times integration id was handed to the task queue.
Enqueued(id) == Cardinality({k \in 1..Len(outbox) : outbox[k] = id})

Responded == request.step = "responded"

FetchFailed(r) == r.kind = "exception" \/ HasErrorKey(r.metrics)

\* C20: the answer of a project or team dashboard holds exactly one envelope
\* per listed integration; the envelope of an integration whose own fetch
\* raises or returns an error has an error field and empty data, and the
\* envelope of every other integration carries that integration's metrics,
\* whatever happened to the fetches of the others.
C20_OneEnvelopePerIntegration ==
  dash.state = "responded" =>
    /\ Len(dash.envelopes) = Len(dash.list)
    /\ \A k \in 1..Len(dash.list) :
         LET env == dash.envelopes[k]
             own == dash.alone[k]
         IN /\ env.id = dash.list[k]
            /\ \A j \in 1..Len(dash.list) : dash.envelopes[j].id = env.id => j = k
            /\ IF FetchFailed(own)
                 THEN env.has_error /\ env.data = EmptyData
                 ELSE ~env.has_error /\ env.data = own.metrics

(***************************************************************************)
(* Properties of GitHubIntegration.calculate_metrics                       *)
(***************************************************************************)
\* The call is over and its result came out of the aggregation.
Aggregated == gh.pc = "done" /\ gh.returned /\ gh.failed_at = None

\* a / b as the quotient r
IsQuotient(r, a, b) == r.den > 0 /\ r.num * b = a * r.den

\* The placeholder of an inactive repository.
Sentinel(m) ==
  /\ {"no_activity", "status", "pr_count", "commit_count", "issue_count"}
       \subseteq m.keys
  /\ m.no_activity /\ m.status = "valid_but_inactive"
  /\ m.pr_count = 0 /\ m.commit_count = 0 /\ m.issue_count = 0

\* With pull requests in the window, the result holds their number and the
\* merged share of them.
MergeRateReported ==
  gh.prs.n > 0 =>
    /\ {"pr_count", "pr_merge_rate"} \subseteq gh.ret.keys
    /\ gh.ret.pr_count = gh.prs.n
    /\ IsQuotient(gh.ret.pr_merge_rate, gh.prs.done, gh.prs.n)

C22_SentinelIffAllEmpty ==
  Aggregated =>
    /\ gh.ret.keys # {}
    /\ "status" \in gh.ret.keys
    /\ IF gh.prs.n = 0 /\ gh.commits.n = 0 /\ gh.issues.n = 0
         THEN Sentinel(gh.ret)
         ELSE /\ gh.ret.status = "active"
              /\ "no_activity" \notin gh.ret.keys
              /\ ~Sentinel(gh.ret)
              /\ ("pr_count" \in gh.ret.keys) = (gh.prs.n > 0)
              /\ ("commit_count" \in gh.ret.keys) = (gh.commits.n > 0)
              /\ ("issue_count" \in gh.ret.keys) = (gh.issues.n > 0)
              /\ gh.commits.n > 0 => gh.ret.commit_count = gh.commits.n
              /\ gh.issues.n > 0 => gh.ret.issue_count = gh.issues.n

C22_Witness ==
  /\ Aggregated
  /\ gh.prs.n = 0 /\ gh.commits.n = 0 /\ gh.issues.n = 0
  /\ Sentinel(gh.ret)

\* C23: calculate_metrics never raises; when a fetch or the aggregation
\* raises, at whichever step, the result is the dict with error = true and a
\* message and nothing else, whatever had been fetched before.
C23_NeverRaisesErrorOnly ==
  gh.pc = "done" =>
    /\ gh.raised = None
    /\ gh.returned
    /\ gh.failed_at # None =>
         /\ gh.ret.keys = {"error", "message"}
         /\ gh.ret.error
         /\ gh.ret = GitHubError

C23_Witness ==
  /\ gh.pc = "done" /\ gh.failed_at = "issues" /\ gh.fetched = 2
  /\ gh.prs.n > 0 /\ gh.commits.n > 0
  /\ gh.ret = GitHubError /\ gh.raised = None

(***************************************************************************)
(* Properties of the metrics request                                       *)
(***************************************************************************)
\* C24: when the GitHub upstream reports the empty-repository condition
\* (an error whose text holds "409" and "Git Repository is empty") while the
\* metrics of an integration are fetched, the metrics field of the response
\* is {error: the friendly empty-repository message}: not a generic failure
\* message and not the raw upstream error.
C24_EmptyRepositoryIsFriendly ==
  (/\ mreq.step = "responded"
   /\ mreq.type = "github"
   /\ mreq.fetched
   /\ mreq.cond = "empty_repository") =>
     /\ mreq.status = 200
     /\ mreq.metrics = ErrorOnly(FriendlyEmptyRepository)

(***************************************************************************)
(* Further properties of the sync tasks                                    *)
(***************************************************************************)
\* C25: the periodic sync processes only integrations whose active flag is
\* true: no step of it constructs an adapter or computes metrics for an
\* inactive integration (its trace stays empty) or changes its last_sync or
\* updated_at.
C25_InactiveLeftAlone ==
  [][\A i \in Ids :
       (~integrations[i].active /\ pjob' # pjob) =>
         /\ integrations'[i] = integrations[i]
         /\ ptrace'[i] = NoTrace
         /\ \A k \in DOMAIN pjob'.active_integrations :
              pjob'.active_integrations[k] # i]_vars

C25_Witness ==
  /\ pjob.state = "done"
  /\ \E i, j \in Ids :
       /\ ~integrations[i].active /\ ptrace[i] = NoTrace
       /\ integrations[j].active /\ ptrace[j].committed
       /\ integrations[j].last_sync # NullTime

\* The position of integration i in the list of the current run (0: not in it).
PositionOf(i) ==
  IF \E k \in DOMAIN pjob.active_integrations : pjob.active_integrations[k] = i
    THEN CHOOSE k \in DOMAIN pjob.active_integrations :
           pjob.active_integrations[k] = i
    ELSE 0

\* The periodic run has dealt with integration i, whose adapter it could
\* construct.
PeriodicConstructed(i) ==
  ptrace[i].task = "periodic" /\ ptrace[i].step # "create"

\* C27: in the periodic sync an active Jira integration without project_key
\* (Trello without board_id) whose adapter is constructed is skipped before
\* the metric computation: get_metrics is not called for it, its last_sync
\* and updated_at are as they were, nothing is committed for it, it is
\* counted as failed, and the loop goes on to the integrations after it,
\* which are committed when their own processing succeeds.
C27_MissingLocatorSkippedInPeriodic ==
  \A i \in Ids :
    (PeriodicConstructed(i) /\ integrations[i].type \in {"jira", "trello"}
       /\ ~integrations[i].has_locator) =>
      /\ ptrace[i].step = "precheck"
      /\ ptrace[i].get_metrics = 0
      /\ ~ptrace[i].assigned /\ ptrace[i].commits = 0 /\ ~ptrace[i].committed
      /\ integrations[i].last_sync = ptrace[i].before
      /\ integrations[i].updated_at = ptrace[i].before
      /\ pjob.failed_syncs >= 1
      /\ pjob.aborted_at # PositionOf(i)
      /\ pjob.state = "running" => pjob.idx > PositionOf(i)
      /\ \A j \in Ids :
           (PositionOf(j) > PositionOf(i) /\ ptrace[j].task = "periodic"
              /\ ptrace[j].outcome = "ok") =>
             /\ ptrace[j].committed
             /\ integrations[j].last_sync # NullTime

C27_Witness ==
  \E i, j \in Ids :
    /\ pjob.state = "done"
    /\ integrations[i].type = "jira" /\ ~integrations[i].has_locator
    /\ ptrace[i].step = "precheck" /\ integrations[i].last_sync = NullTime
    /\ PositionOf(j) > PositionOf(i)
    /\ ptrace[j].outcome = "ok" /\ ptrace[j].committed
    /\ pjob.successful_syncs = 1 /\ pjob.failed_syncs = 1

\* The last execution of the initial sync got metrics from get_metrics.
InitialComputed ==
  /\ itrace.task = "initial"
  /\ itrace.step \in {"metrics", "commit"}
  /\ itrace.get_metrics = 1
  /\ (itrace.step = "metrics" => itrace.outcome = "ok")

\* C28: an execution of the initial sync whose metric computation succeeds
\* has called get_metrics exactly once, with days = 30 and with the stored
\* project_key (Jira) or board_id (Trello) when there is one, has then set
\* last_sync and updated_at and has committed exactly once; after the commit
\* the row carries both timestamps.
C28_InitialSuccessOnceAndCommitted ==
  InitialComputed =>
    LET row == integrations[ijob.id]
    IN /\ itrace.get_metrics = 1
       /\ itrace.params.days = 30
       /\ itrace.params.key =
            (IF row.type = "jira" /\ row.has_locator THEN "project_key"
             ELSE IF row.type = "trello" /\ row.has_locator THEN "board_id"
             ELSE None)
       /\ itrace.assigned
       /\ itrace.commits = 1
       /\ itrace.committed =>
            /\ ijob.state = "succeeded"
            /\ row.last_sync = TimeAt(now) /\ row.updated_at = TimeAt(now)

C28_Witness ==
  /\ InitialComputed /\ itrace.committed /\ ijob.state = "succeeded"
  /\ integrations[ijob.id].type = "jira"
  /\ itrace.params = [days |-> 30, key |-> "project_key"]
  /\ itrace.commits = 1
  /\ integrations[ijob.id].last_sync # NullTime

\* C29: an execution of the initial sync for an id that has no row when it
\* runs returns normally after that one execution: no adapter is
\* constructed, nothing is computed, assigned or committed and no retry is
\* scheduled.
C29_MissingIntegrationReturns ==
  (ijob.id \notin Ids /\ itrace.task = "initial" /\ itrace.step = "lookup") =>
    /\ ijob.state = "not_found"
    /\ itrace.outcome = "not_found"
    /\ itrace.get_metrics = 0
    /\ ~itrace.assigned /\ itrace.commits = 0 /\ ~itrace.committed
    /\ ~itrace.retried /\ ijob.retries = 0
    /\ ijob.runs = 1 /\ ijob.closes = 1

C29_Witness ==
  /\ ijob.id \notin Ids /\ ijob.state = "not_found" /\ ijob.runs = 1
  /\ itrace.step = "lookup" /\ itrace.outcome = "not_found"

\* C30: every execution of the initial sync and of the periodic sync closes
\* its database session exactly once, however it ends (success, early
\* return, configuration error, retry, unhandled exception): the sessions
\* closed are as many as the executions over, and an execution under way
\* has not closed its session yet.
C30_SessionClosedOncePerExecution ==
  /\ ijob.closes = ijob.runs
  /\ pjob.closes = IF pjob.state = "running" THEN pjob.runs - 1 ELSE pjob.runs

C30_Witness ==
  /\ ijob.state = "abandoned"
  /\ ijob.runs = InitialMaxRetries + 1
  /\ ijob.closes = ijob.runs

(***************************************************************************)
(* Properties of JiraIntegration.calculate_metrics                         *)
(***************************************************************************)
SprintKeys == {"active_sprint_count", "completed_sprint_count", "sprint_error"}

\* C26: a failure while the boards or the sprints of the project are
\* retrieved does not reach the caller of calculate_metrics: the call
\* returns, its result holds every figure derived from the issues as
\* computed, no sprint count, and the text of the failure under sprint_error.
C26_SprintFailureIsSubField ==
  (jr.pc = "done" /\ jr.failed_at \in {"boards", "sprints"}) =>
    /\ jr.raised = None
    /\ jr.returned
    /\ "sprint_error" \in jr.ret.keys
    /\ jr.ret.sprint_error # <<>>
    /\ jr.ret.keys \ SprintKeys = IssueMetrics(jr.issues).keys
    /\ jr.ret.issues = jr.issues.n
    /\ jr.ret.keys \cap SprintKeys = {"sprint_error"}

C26_Witness ==
  /\ jr.pc = "done" /\ jr.failed_at = "sprints" /\ jr.boards = 1
  /\ jr.issues.n = 2 /\ jr.issues.done = 1
  /\ jr.returned /\ jr.raised = None
  /\ jr.ret.keys = {"issue_counts_by_type", "issue_counts_by_status", "sprint_error"}

(***************************************************************************)
(* Further properties of the cache key                                     *)
(***************************************************************************)
\* The locator of a call: the instance's repository_name, else the
\* project_key / board_id argument.
LocatorOf(call) ==
  IF call.kind = "github" THEN StrV(call.repo)
  ELSE Given(call, LocatorParam(call.kind))

\* C31: for a decorated method of an instance with locator L called with
\* days = N, the key is <function name>:<L>:days=<N> (for example
\* calculate_metrics:my/repo:days=90), whether days is passed by keyword,
\* positionally, or left to its default.
C31_KeyIsNameLocatorDays ==
  LET call == args[KeyCaller]
      L == LocatorOf(call)
      N == Given(call, "days")
  IN (KeyDerived /\ call.kind \in Kinds /\ Binds(call)
        /\ L \notin {NoneV, StrV("")} /\ N # NoneV) =>
       final_cache_key[KeyCaller] =
         call.method \o ":" \o Str(L) \o ":days=" \o Str(N)

(***************************************************************************)
(* Further properties of the memoizing wrapper                             *)
(***************************************************************************)
\* The name of the decorated function without parameters.
PlainName == "expensive_function_no_args"

\* C32: a decorated function that takes no arguments can be called through
\* the wrapper while the cache client is available: the call does not fail
\* in the wrapper; on a miss the function is invoked exactly once, its
\* result is returned and written exactly once under the function's name
\* with the decorator's TTL; on a hit it is not invoked.
C32_NoArgumentFunctionIsCached ==
  \A p \in Callers :
    (pc[p] = "done" /\ args[p] = PlainCall /\ redis_client) =>
      /\ raised[p] = None
      /\ stats[p].reads = 1 /\ stats[p].rkey = PlainName
      /\ IF stats[p].hit
           THEN stats[p].calls = 0 /\ stats[p].writes = 0
           ELSE /\ stats[p].calls = 1 /\ stats[p].writes = 1
                /\ stats[p].wkey = PlainName
                /\ stats[p].wttl = TTLSeconds("function")
                /\ ret[p] = PlainResult

\* Caller p went through the wrapper and its read of the store was a miss.
ReadMiss(p) ==
  /\ via[p] = "wrapper" /\ stats[p].reads = 1
  /\ ~stats[p].hit /\ ~stats[p].geterr

\* Callers p and q are in the wrapper at the same time with the same key,
\* and both have read a miss.
ConcurrentMisses(p, q) ==
  /\ p # q
  /\ ReadMiss(p) /\ ReadMiss(q)
  /\ final_cache_key[p] = final_cache_key[q]

\* C33: when two invocations with the same cache key run concurrently and
\* both read a miss, neither waits for the other (its next step can be
\* taken wherever the other is); each one whose function returns a result
\* that can be stored invoked the function exactly once and made exactly
\* one cache write; and when both writes reached the store, the entry left
\* in it (until its lifetime is over) is the result written by one of the
\* two.
C33_ConcurrentMissesBothComputeAndWrite ==
  \A p, q \in Callers :
    ConcurrentMisses(p, q) =>
      /\ pc[p] = "compute" =>
           ENABLED Compute(p, "ok", "native")
      /\ pc[p] = "write" => ENABLED CacheSet(p)
      /\ (pc[p] = "done" /\ raised[p] = None) =>
           /\ stats[p].calls = 1
           /\ stats[p].writes = 1
           /\ stats[p].wkey = final_cache_key[p]
           /\ ret[p] = result[p]
      /\ (pc[p] = "done" /\ pc[q] = "done"
            /\ raised[p] = None /\ raised[q] = None
            /\ ~stats[p].seterr /\ ~stats[q].seterr) =>
           LET entry == store[final_cache_key[p]]
           IN \/ entry.val \in {Dumps(ret[p]), Dumps(ret[q])}
              \/ entry = NoEntry /\ now > 0

C33_Witness ==
  \E p, q \in Callers :
    /\ ConcurrentMisses(p, q)
    /\ pc[p] = "done" /\ pc[q] = "done"
    /\ raised[p] = None /\ raised[q] = None
    /\ stats[p].writes = 1 /\ stats[q].writes = 1
    /\ ~stats[p].seterr /\ ~stats[q].seterr
    /\ ret[p] # ret[q]
    /\ store[final_cache_key[p]].val = Dumps(ret[q])

\* What the function behind a call can raise.
FunctionExceptions(c) ==
  {CalculateMetrics(c, upstream, up).exc : up \in UpstreamOutcomes} \ {None}

\* Caller p's function call, made by the wrapper after a miss, raises in
\* this step.
RaisesOnMiss(p) ==
  /\ pc[p] = "compute" /\ via[p] = "wrapper"
  /\ stats'[p].calls = stats[p].calls + 1
  /\ pc'[p] = "done"

\* C34: if the wrapped function raises on a cache miss, the caller gets the
\* exception the function raised, and nothing is written: the store is left
\* as it was, so the next call with the same key finds what this one found
\* (again a miss); no entry of the store ever holds a failure.
C34_RaisingComputeIsNotCached ==
  /\ [][\A p \in Callers :
          RaisesOnMiss(p) =>
            /\ raised'[p] \in FunctionExceptions(args[p])
            /\ store' = store
            /\ stats'[p].writes = 0
            /\ ret'[p] = Nil]_vars
  /\ [](\A p \in Callers :
          (pc[p] = "done" /\ via[p] = "wrapper" /\ raised[p] # None) =>
            stats[p].writes = 0)
  /\ [](\A k \in KeySpace :
          store[k] # NoEntry => Loads(store[k].val) # ErrorResult)

C34_Witness ==
  \E p \in Callers :
    /\ pc[p] = "done" /\ ReadMiss(p) /\ raised[p] = "ValueError"
    /\ stats[p].calls = 1 /\ stats[p].writes = 0
    /\ store[final_cache_key[p]] = NoEntry
    /\ redis_up

(***************************************************************************)
(* Further properties of the sync tasks                                    *)
(***************************************************************************)
\* What one execution of the initial sync leaves of a row in environment e.
InitialOn(row, e, retry) ==
  InitialHandle(Attempt(row, e), e.query, e.commit, retry, row.last_sync).t

\* What one iteration of the periodic sync leaves of it in the same
\* environment.
PeriodicOn(row, e) == PeriodicHandle(row, Attempt(row, e), e.commit).t

\* The environments in which the initial sync did what itrace records.
InitialEnvs(row) ==
  {e \in LoopEnvs :
     \E retry \in BOOLEAN :
       [InitialOn([row EXCEPT !.last_sync = itrace.before], e, retry)
          EXCEPT !.params = itrace.params] = itrace}

\* The environments in which the periodic sync did with integration i what
\* ptrace[i] records.
PeriodicEnvs(i, row) ==
  {e \in LoopEnvs :
     [PeriodicOn([row EXCEPT !.last_sync = ptrace[i].before], e)
        EXCEPT !.params = ptrace[i].params] = ptrace[i]}

\* The initial sync has processed the active row of its job.
InitialProcessed ==
  /\ itrace.task = "initial" /\ itrace.step \notin {"query", "lookup"}
  /\ ijob.id \in Ids /\ integrations[ijob.id].active

\* A "jira" or "trello" row without its locator.
LacksLocator(row) == row.type \in {"jira", "trello"} /\ ~row.has_locator

AgreeOrKnownDifference(row, e, initial, periodic) ==
  IF Attempt(row, e).step = "create" /\ Attempt(row, e).outcome = "ValueError"
    THEN ~initial /\ (periodic <=> e.commit = "ok")
  ELSE IF Attempt(row, e).step # "create" /\ LacksLocator(row)
    THEN ~periodic /\ (initial <=> e.commit = "ok")
  ELSE initial = periodic

LocatorParamOfTag(type) ==
  IF type \in {"jira", "Jira", "JIRA"} THEN "project_key"
  ELSE IF type \in {"trello", "Trello", "TRELLO"} THEN "board_id"
  ELSE None

\* The task execution recorded in t called get_metrics for a row that is
\* configured correctly: an accepted tag that needs a locator, and the
\* locator in config.
CalledConfigured(t, row) ==
  /\ t.get_metrics = 1
  /\ LocatorParamOfTag(row.type) # None
  /\ row.has_locator

\* C36: for every stored integration whose type tag the factory accepts
\* (whatever its case) and whose config contains its locator, both sync
\* tasks pass that locator to get_metrics, and the sync does not end in the
\* missing-locator ValueError.
C36_ConfiguredLocatorIsPassed ==
  /\ (itrace.task = "initial" /\ ijob.id \in Ids
        /\ CalledConfigured(itrace, integrations[ijob.id])) =>
       /\ itrace.params.key = LocatorParamOfTag(integrations[ijob.id].type)
       /\ itrace.outcome = "ValueError" => itrace.upfail
  /\ \A i \in Ids :
       (ptrace[i].task = "periodic"
          /\ CalledConfigured(ptrace[i], integrations[i])) =>
         /\ ptrace[i].params.key = LocatorParamOfTag(integrations[i].type)
         /\ ptrace[i].outcome = "ValueError" => ptrace[i].upfail

\* C37: a cached result is served only to a call made with the same
\* upstream account as the call that wrote it: what a caller gets on a hit
\* was computed for the account of its own adapter instance.
C37_HitIsOfOwnAccount ==
  \A p \in Callers :
    (pc[p] = "done" /\ via[p] = "wrapper" /\ stats[p].hit) =>
      ret[p].account = args[p].account

\* Caller p starts a call of the decorated adapter method in this step.
Starts(p) ==
  /\ pc[p] = "idle" /\ pc'[p] # "idle"
  /\ args'[p].kind = "trello" /\ via'[p] # "factory"

\* C38 as claimed: whenever the cache store is reachable at the time of a
\* decorated call, the wrapper goes to the store, also in a process that
\* started while the store was unreachable.
C38_CacheFollowsReachability ==
  [][\A p \in Callers :
       (Starts(p) /\ redis_up) => (via'[p] = "wrapper" /\ pc'[p] = "read")]_vars

\* C38 (amended): in a process that found the store when the module was
\* loaded, a decorated call made while the store is reachable reads it and,
\* on a miss whose function returns a storable result, writes it; a process
\* that started while the store was unreachable holds no client and every
\* decorated call in it bypasses the cache, also after the store has become
\* reachable.
C38_CacheFollowsClientAtImport ==
  [][\A p \in Callers :
       /\ (Starts(p) /\ redis_client) =>
            (via'[p] = "wrapper" /\ pc'[p] = "read")
       /\ (Starts(p) /\ ~redis_client) =>
            (via'[p] = "bypass" /\ pc'[p] = "compute")
       /\ (pc[p] = "read" /\ pc'[p] # "read" /\ redis_up) =>
            /\ stats'[p].reads = 1 /\ ~stats'[p].geterr
            /\ stats'[p].hit \/ pc'[p] = "compute"
       /\ (pc[p] = "write" /\ pc'[p] = "done" /\ redis_up
             /\ raised'[p] = None) =>
            /\ stats'[p].writes = 1 /\ ~stats'[p].seterr
            /\ store'[final_cache_key[p]].val = Dumps(result[p])
       /\ (pc[p] = "compute" /\ pc'[p] # "compute" /\ via[p] = "bypass") =>
            (pc'[p] = "done" /\ store' = store /\ stats'[p].reads = 0
               /\ stats'[p].writes = 0)]_vars

C38_Witness ==
  \E p \in Callers :
    /\ ~redis_client /\ redis_up
    /\ pc[p] = "done" /\ args[p].kind = "trello" /\ via[p] = "bypass"
    /\ stats[p].reads = 0 /\ stats[p].writes = 0 /\ stats[p].calls = 1
    /\ ret[p] # Nil

\* What a call is about: adapter class, method, locator and lookback
\* window.
Encoded(call) ==
  <<call.kind, call.method, LocatorOf(call), Given(call, "days")>>

\* C39: the cache key is injective on what it encodes: two calls of
\* decorated methods that differ in adapter class, method name, locator
\* (repository name, project_key or board_id) or days never get the same
\* key.
C39_KeyIsInjective ==
  LET call == args[KeyCaller]
  IN (KeyDerived /\ Binds(call)) =>
       \A other \in KeyCalls :
         (Binds(other) /\ Encoded(other) # Encoded(call)) =>
           WrapperKey(other) # final_cache_key[KeyCaller]

\* C40: every initial sync job terminates: with the worker running the
\* queued job (the retries included), a queued job reaches a terminal
\* outcome (succeeded, configuration soft-skip, integration not found,
\* failed without retry, or abandoned after its retries), and the task body
\* is executed at most 1 + max_retries (= 4) times for one job.
C40_InitialSyncTerminates ==
  /\ [](ijob.runs <= 1 + InitialMaxRetries /\ ijob.retries <= InitialMaxRetries)
  /\ [](ijob.state \in {"none", "queued"} \cup
          {"succeeded", "skipped_config", "not_found", "failed", "abandoned"})
  /\ (ijob.state = "queued") ~>
       (ijob.state \in {"succeeded", "skipped_config", "not_found", "failed",
                        "abandoned"})

C40_Witness ==
  /\ ijob.state = "abandoned"
  /\ ijob.retries = InitialMaxRetries
  /\ ijob.runs = 4
  /\ itrace.task = "initial" /\ ~itrace.retried

====
